---- MODULE Spec2Model ----
(***************************************************************************)
(* The tool-call dispatcher of the WikiJS MCP server (wikijs_mcp/server.py) *)
(* and the GraphQL client it drives (wikijs_mcp/client.py).                 *)
(*                                                                          *)
(* One tool invocation is a sequence of steps: handle_call_tool runs the    *)
(* handler up to its first upstream request, every upstream reply resumes   *)
(* the handler until its next request or its end.  The upstream (the wiki)  *)
(* is the environment: its replies are chosen nondeterministically.         *)
(*                                                                          *)
(* Python values are modelled as tagged tuples (JSON values); a Python      *)
(* string is a sequence of characters, so that lower(), `in` and str() are  *)
(* computed and not assumed.  The result of a Python call is Ok(value) or   *)
(* Raise(message).                                                          *)
(***************************************************************************)
EXTENDS Integers, Sequences, FiniteSets, TLC

(***************************************************************************)
(* Bounds of the model.                                                     *)
(***************************************************************************)
\* longest list the upstream returns for pages.search.results / pages.list
MaxPages == 3
\* largest `limit` argument a caller passes (the smallest is -1)
MaxLimit == 2
\* tool invocations in flight at the same time
MaxInvocations == 2
\* writes of other writers (an external editor) to the page
MaxEdits == 1

(***************************************************************************)
(* JSON / Python values.                                                    *)
(***************************************************************************)
JNull == <<"null">>
JStr(s) == <<"str", s>>
JInt(n) == <<"int", n>>
JBool(b) == <<"bool", b>>
JList(l) == <<"list", l>>
JObj(f) == <<"obj", f>>

Tag(v) == v[1]
Val(v) == v[2]
IsNull(v) == Tag(v) = "null"
IsStr(v) == Tag(v) = "str"
IsList(v) == Tag(v) = "list"
IsObj(v) == Tag(v) = "obj"

EmptyDict == JObj(<<>>)
EmptyList == JList(<<>>)
EmptyStr == JStr(<<>>)

\* Python truthiness: `if v`, `not v`, `a or b`
Truthy(v) ==
    CASE Tag(v) = "null" -> FALSE
      [] Tag(v) = "bool" -> Val(v)
      [] Tag(v) = "int" -> Val(v) # 0
      [] Tag(v) = "str" -> Len(Val(v)) > 0
      [] Tag(v) = "list" -> Len(Val(v)) > 0
      [] Tag(v) = "obj" -> DOMAIN Val(v) # {}

\* outcome of a Python call
Ok(v) == <<"ok", v>>
Raise(msg) == <<"raise", msg>>
IsOk(r) == r[1] = "ok"
IsRaise(r) == r[1] = "raise"

\* exception messages of the interpreter
AttributeError == <<"AttributeError">>
TypeError == <<"TypeError">>
KeyError(k) == <<"'", k, "'">>

\* `k in d` for a dict d
Has(d, k) == k \in DOMAIN Val(d)

\* d.get(k, default) on a value known to be a dict
DictGet(d, k, default) == IF Has(d, k) THEN Val(d)[k] ELSE default

\* v.get(k, default) on any value: only a dict has .get
PyGet(v, k, default) ==
    IF IsObj(v) THEN Ok(DictGet(v, k, default)) ELSE Raise(AttributeError)

\* a.get(k1, {}).get(k2, {}) ... .get(kn, last)
RECURSIVE GetPath(_, _, _)
GetPath(v, keys, last) ==
    IF keys = <<>> THEN Ok(v)
    ELSE IF ~IsObj(v) THEN Raise(AttributeError)
    ELSE GetPath(DictGet(v, Head(keys), IF Len(keys) = 1 THEN last ELSE EmptyDict),
                 Tail(keys), last)

\* str.lower()
LowerChar(c) ==
    CASE c = "A" -> "a"
      [] c = "B" -> "b"
      [] OTHER -> c
StrLower(s) == [i \in 1..Len(s) |-> LowerChar(s[i])]

\* `needle in hay` for two strings
StrContains(needle, hay) ==
    \E i \in 0..(Len(hay) - Len(needle)) : SubSeq(hay, i + 1, i + Len(needle)) = needle

\* str(n) for an integer
Digit(d) ==
    CASE d = 0 -> "0" [] d = 1 -> "1" [] d = 2 -> "2" [] d = 3 -> "3" [] d = 4 -> "4"
      [] d = 5 -> "5" [] d = 6 -> "6" [] d = 7 -> "7" [] d = 8 -> "8" [] d = 9 -> "9"
RECURSIVE StrNat(_)
StrNat(n) == IF n < 10 THEN <<Digit(n)>> ELSE StrNat(n \div 10) \o <<Digit(n % 10)>>
StrInt(n) == IF n < 0 THEN <<"-">> \o StrNat(-n) ELSE StrNat(n)

\* str(v) / f"{v}" for a value
RECURSIVE PyStr(_)
PyStr(v) ==
    CASE Tag(v) = "null" -> <<"None">>
      [] Tag(v) = "bool" -> IF Val(v) THEN <<"True">> ELSE <<"False">>
      [] Tag(v) = "int" -> StrInt(Val(v))
      [] Tag(v) = "str" -> Val(v)
      [] Tag(v) = "list" -> <<"[">> \o (IF Len(Val(v)) = 0 THEN <<>> ELSE PyStr(Val(v)[1]))
                             \o (IF Len(Val(v)) > 1 THEN <<", ...">> ELSE <<>>) \o <<"]">>
      [] Tag(v) = "obj" -> <<"{...}">>

\* l[:n] for a list l
SliceTo(l, n) ==
    IF n >= 0 THEN SubSeq(l, 1, IF n < Len(l) THEN n ELSE Len(l))
    ELSE SubSeq(l, 1, IF Len(l) + n > 0 THEN Len(l) + n ELSE 0)

\* v[:n] for any value: None and dicts cannot be sliced
PySlice(v, n) ==
    IF IsList(v) THEN Ok(JList(SliceTo(Val(v), n)))
    ELSE IF IsStr(v) THEN Ok(JStr(SliceTo(Val(v), n)))
    ELSE Raise(TypeError)

(***************************************************************************)
(* Program constants.                                                       *)
(***************************************************************************)
\* arguments.get("limit", 10) of wiki_search
DefaultSearchLimit == 10
\* arguments.get("limit", 50) of wiki_list_pages
DefaultListLimit == 50
\* self.list_pages(limit=1000) of the search fallback
FallbackListLimit == 1000

En == <<"e", "n">>

(***************************************************************************)
(* WikiJSClient._execute_query.  A reply of the upstream is                 *)
(* <<"connect_error">> (client.post raised) or <<"http", status, body>>     *)
(* with body the parsed JSON object of the response.                        *)
(***************************************************************************)
ConnectError == <<"ConnectError">>
ApiRequestFailed(status) == <<"API request failed: ">> \o StrInt(status)
GraphQLQueryFailed(errors) == <<"GraphQL query failed: ">> \o PyStr(errors)

\* faulty variant: the body is inspected for `errors` before the status is
ExecuteQueryBodyFirst(reply) ==
    IF reply[1] = "connect_error" THEN Raise(ConnectError)
    ELSE IF Has(reply[3], "errors")
         THEN Raise(GraphQLQueryFailed(Val(reply[3])["errors"]))
    ELSE IF ~(reply[2] \in 200..299) THEN Raise(ApiRequestFailed(reply[2]))
    ELSE Ok(DictGet(reply[3], "data", EmptyDict))

\* client.post raising, then raise_for_status(), then the `errors` test on
\* the parsed body, then result.get("data", {})
ExecuteQuery(reply) ==
    IF reply[1] = "connect_error" THEN Raise(ConnectError)
    ELSE IF ~(reply[2] \in 200..299) THEN Raise(ApiRequestFailed(reply[2]))
    ELSE IF Has(reply[3], "errors")
         THEN Raise(GraphQLQueryFailed(Val(reply[3])["errors"]))
    ELSE Ok(DictGet(reply[3], "data", EmptyDict))

(***************************************************************************)
(* WikiJSClient.search_pages.                                               *)
(***************************************************************************)
SearchVariables(query) == [query |-> query, path |-> EmptyStr, locale |-> JStr(En)]

\* faulty variant: the primary path returns the upstream results untruncated
SearchPrimaryNoLimit(exec, limit) ==
    IF IsRaise(exec) THEN exec
    ELSE GetPath(exec[2], <<"pages", "search", "results">>, EmptyList)

\* the body of the try block once the search request has been answered;
\* a Raise is caught by `except Exception` and starts the fallback
SearchPrimary(exec, limit) ==
    IF IsRaise(exec) THEN exec
    ELSE LET results == GetPath(exec[2], <<"pages", "search", "results">>, EmptyList)
         IN  IF IsRaise(results) THEN results ELSE PySlice(results[2], Val(limit))

\* page.get(k, '').lower()
FieldLower(page, k) ==
    LET f == PyGet(page, k, EmptyStr)
    IN  IF IsRaise(f) THEN f
        ELSE IF IsStr(f[2]) THEN Ok(StrLower(Val(f[2])))
        ELSE Raise(AttributeError)

\* query_lower in page.get(k, '').lower()
InField(q, page, k) ==
    LET f == FieldLower(page, k)
    IN  IF IsRaise(f) THEN f ELSE Ok(StrContains(q, f[2]))

\* the `or` of the three tests, left to right, stopping at the first true one
PageMatches(page, q) ==
    LET t == InField(q, page, "title")
    IN  IF IsRaise(t) \/ t[2] THEN t
        ELSE LET d == InField(q, page, "description")
             IN  IF IsRaise(d) \/ d[2] THEN d
                 ELSE InField(q, page, "path")

\* the search_result dict built for a matching page
SearchResultOf(page) ==
    JObj([id |-> JStr(PyStr(DictGet(page, "id", EmptyStr))),
          title |-> DictGet(page, "title", EmptyStr),
          description |-> DictGet(page, "description", EmptyStr),
          path |-> DictGet(page, "path", EmptyStr),
          locale |-> DictGet(page, "locale", JStr(En))])

\* the for loop over all_pages, with its break
RECURSIVE FilterPages(_, _, _, _)
FilterPages(pages, q, limit, acc) ==
    IF Len(pages) = 0 THEN Ok(JList(acc))
    ELSE LET m == PageMatches(Head(pages), q)
         IN  IF IsRaise(m) THEN m
             ELSE IF m[2]
                  THEN LET filtered == Append(acc, SearchResultOf(Head(pages)))
                       IN  IF Len(filtered) >= limit THEN Ok(JList(filtered))
                           ELSE FilterPages(Tail(pages), q, limit, filtered)
             ELSE FilterPages(Tail(pages), q, limit, acc)

\* WikiJSClient.list_pages once its request has been answered
ListPages(exec) ==
    IF IsRaise(exec) THEN exec
    ELSE GetPath(exec[2], <<"pages", "list">>, EmptyList)

\* the except block once the list request has been answered
SearchFallback(exec, query, limit) ==
    LET all_pages == ListPages(exec)
    IN  IF IsRaise(all_pages) THEN all_pages
        ELSE IF ~IsList(all_pages[2]) THEN Raise(TypeError)
        ELSE FilterPages(Val(all_pages[2]), StrLower(Val(query)), Val(limit), <<>>)

(***************************************************************************)
(* WikiJSClient.get_page_by_path / get_page_by_id / get_page_tree.          *)
(***************************************************************************)
GetPageByPath(exec) ==
    IF IsRaise(exec) THEN exec
    ELSE GetPath(exec[2], <<"pages", "singleByPath">>, JNull)

GetPageById(exec) ==
    IF IsRaise(exec) THEN exec
    ELSE GetPath(exec[2], <<"pages", "single">>, JNull)

TreeVariables(parent_path) ==
    [path |-> IF Truthy(parent_path) THEN parent_path ELSE JNull,
     parent |-> JNull, mode |-> JStr(<<"ALL">>), locale |-> JStr(En),
     includeAncestors |-> JBool(FALSE)]

GetPageTree(exec) ==
    IF IsRaise(exec) THEN exec
    ELSE GetPath(exec[2], <<"pages", "tree">>, EmptyList)

(***************************************************************************)
(* The mutations of WikiJSClient.                                           *)
(***************************************************************************)
UnknownError == JStr(<<"Unknown error">>)

\* faulty variant: the mutation's result is returned whatever `succeeded` is
MutationResultUnchecked(exec, op, failed) ==
    IF IsRaise(exec) THEN exec
    ELSE GetPath(exec[2], <<"pages", op>>, EmptyDict)

\* faulty variant: only an explicit `succeeded: false` is a failure
MutationResultLenient(exec, op, failed) ==
    IF IsRaise(exec) THEN exec
    ELSE LET res == GetPath(exec[2], <<"pages", op>>, EmptyDict)
         IN  IF IsRaise(res) THEN res
             ELSE LET response == PyGet(res[2], "responseResult", EmptyDict)
                  IN  IF IsRaise(response) THEN response
                      ELSE IF PyGet(response[2], "succeeded", JNull) = Ok(JBool(FALSE))
                           THEN Raise(failed \o PyStr(DictGet(response[2], "message",
                                                             UnknownError)))
                      ELSE res

\* the tail shared by create_page, update_page, delete_page and move_page:
\* read pages.<op>.responseResult and raise unless succeeded is truthy
MutationResult(exec, op, failed) ==
    IF IsRaise(exec) THEN exec
    ELSE LET res == GetPath(exec[2], <<"pages", op>>, EmptyDict)
         IN  IF IsRaise(res) THEN res
             ELSE LET response == PyGet(res[2], "responseResult", EmptyDict)
                  IN  IF IsRaise(response) THEN response
                      ELSE LET succeeded == PyGet(response[2], "succeeded", JNull)
                           IN  IF IsRaise(succeeded) THEN succeeded
                               ELSE IF ~Truthy(succeeded[2])
                                    THEN Raise(failed \o PyStr(DictGet(response[2], "message",
                                                                      UnknownError)))
                               ELSE res

CreateVariables(kw) ==
    [content |-> kw.content, description |-> kw.description, editor |-> JStr(<<"markdown">>),
     isPublished |-> JBool(TRUE), isPrivate |-> JBool(FALSE), locale |-> JStr(En),
     path |-> kw.path, tags |-> IF Truthy(kw.tags) THEN kw.tags ELSE EmptyList,
     title |-> kw.title]

CreatePage(exec) == MutationResult(exec, "create", <<"Failed to create page: ">>)

PageNotFound(page_id) == <<"Page with ID ">> \o PyStr(page_id) \o <<" not found">>

\* faulty variant: `x or current_page.get(k, default)`, which drops "" and False
MergedByTruth(kw, p, current_page, k, default) ==
    IF p \in DOMAIN kw /\ Truthy(kw[p]) THEN kw[p] ELSE DictGet(current_page, k, default)

\* `x if x is not None else current_page.get(k, default)`
Merged(kw, p, current_page, k, default) ==
    IF p \in DOMAIN kw /\ ~IsNull(kw[p]) THEN kw[p] ELSE DictGet(current_page, k, default)

\* faulty variant: only the fields the caller supplied are sent
UpdateDataSuppliedOnly(page_id, kw, current_page) ==
    [id |-> page_id]
        @@ [f \in {g \in {"content", "title", "description"} :
                      g \in DOMAIN kw /\ ~IsNull(kw[g])} |-> kw[f]]

\* the update_data dict: the variables of the update mutation
UpdateData(page_id, kw, current_page) ==
    [id |-> page_id,
     content |-> Merged(kw, "content", current_page, "content", EmptyStr),
     title |-> Merged(kw, "title", current_page, "title", EmptyStr),
     description |-> Merged(kw, "description", current_page, "description", EmptyStr),
     editor |-> Merged(kw, "editor", current_page, "editor", JStr(<<"markdown">>)),
     isPrivate |-> Merged(kw, "is_private", current_page, "isPrivate", JBool(FALSE)),
     isPublished |-> Merged(kw, "is_published", current_page, "isPublished", JBool(TRUE)),
     locale |-> Merged(kw, "locale", current_page, "locale", JStr(En)),
     path |-> Merged(kw, "path", current_page, "path", EmptyStr),
     tags |-> IF "tags" \in DOMAIN kw /\ ~IsNull(kw["tags"]) THEN kw["tags"] ELSE EmptyList]

UpdatePage(exec) == MutationResult(exec, "update", <<"Failed to update page: ">>)

DeleteVariables(page_id) == [id |-> page_id]

DeletePage(exec) == MutationResult(exec, "delete", <<"Failed to delete page: ">>)

MoveVariables(kw) ==
    [id |-> kw.page_id, destinationPath |-> kw.destination_path,
     destinationLocale |-> kw.destination_locale]

MovePage(exec) == MutationResult(exec, "move", <<"Failed to move page: ">>)

(***************************************************************************)
(* The operation handlers of WikiJSMCPServer: the text they build.  A text  *)
(* is a sequence of pieces; the pieces are evaluated in the order of the    *)
(* code and the first one that raises ends the handler.                     *)
(***************************************************************************)
RECURSIVE Pieces(_)
Pieces(ps) ==
    IF Len(ps) = 0 THEN Ok(<<>>)
    ELSE IF IsRaise(Head(ps)) THEN Head(ps)
    ELSE LET rest == Pieces(Tail(ps))
         IN  IF IsRaise(rest) THEN rest ELSE Ok(Head(ps)[2] \o rest[2])

\* page[k]
PyIndex(page, k) ==
    IF ~IsObj(page) THEN Raise(TypeError)
    ELSE IF Has(page, k) THEN Ok(Val(page)[k])
    ELSE Raise(KeyError(k))

\* f"<before>{page[k]}<after>"
Field(before, page, k, after) ==
    LET v == PyIndex(page, k)
    IN  IF IsRaise(v) THEN v ELSE Ok(<<before>> \o PyStr(v[2]) \o <<after>>)

\* if page.get(k): response += f"<before>{page[k]}<after>"
OptField(before, page, k, after) ==
    LET v == PyGet(page, k, JNull)
    IN  IF IsRaise(v) THEN v
        ELSE IF Truthy(v[2]) THEN Ok(<<before>> \o PyStr(v[2]) \o <<after>>)
        ELSE Ok(<<>>)

\* f"<before>{page.get(k, default)}<after>"
GetField(before, page, k, default, after) ==
    LET v == PyGet(page, k, default)
    IN  IF IsRaise(v) THEN v ELSE Ok(<<before>> \o PyStr(v[2]) \o <<after>>)

\* if page.get('author'): response += f"...{page['author'].get('name', 'Unknown')}\n"
AuthorField(before, page) ==
    LET a == PyGet(page, "author", JNull)
    IN  IF IsRaise(a) THEN a
        ELSE IF Truthy(a[2]) THEN GetField(before, a[2], "name", JStr(<<"Unknown">>), "\n")
        ELSE Ok(<<>>)

\* the loop of a handler over the items of a list
RECURSIVE ForEach(_, _)
ForEach(items, acc) ==
    IF Len(items) = 0 THEN Ok(acc)
    ELSE IF IsRaise(Head(items)) THEN Head(items)
    ELSE ForEach(Tail(items), acc \o Head(items)[2])

SearchItem(page) ==
    Pieces(<<Field("**", page, "title", "**\n"),
             Field("Path: ", page, "path", "\n"),
             OptField("Description: ", page, "description", "\n"),
             Field("Updated: ", page, "updatedAt", "\n\n")>>)

\* _handle_wiki_search after client.search_pages has returned `results`
HandleWikiSearch(query, limit, results) ==
    IF ~Truthy(results) THEN Ok(<<"No pages found for query: ">> \o PyStr(query))
    ELSE IF ~IsList(results) THEN Raise(TypeError)
    ELSE ForEach([i \in 1..Len(Val(results)) |-> SearchItem(Val(results)[i])],
                 <<"Found ">> \o StrInt(Len(Val(results))) \o <<" pages for query '">>
                     \o PyStr(query) \o <<"':\n\n">>)

\* [tag['tag'] for tag in page['tags']] joined with ", "
TagsField(page) ==
    LET t == PyGet(page, "tags", JNull)
    IN  IF IsRaise(t) THEN t
        ELSE IF ~Truthy(t[2]) THEN Ok(<<>>)
        ELSE IF ~IsList(t[2]) THEN Raise(TypeError)
        ELSE ForEach([i \in 1..Len(Val(t[2])) |->
                         Field(IF i = 1 THEN "" ELSE ", ", Val(t[2])[i], "tag", "")],
                     <<"**Tags:** ">>)

\* the text _handle_wiki_get_page builds for a page that was found
FormatPage(page) ==
    Pieces(<<Field("# ", page, "title", "\n\n"),
             Field("**Path:** ", page, "path", "\n"),
             Field("**ID:** ", page, "id", "\n"),
             OptField("**Description:** ", page, "description", "\n"),
             GetField("**Editor:** ", page, "editor", JStr(<<"unknown">>), "\n"),
             GetField("**Locale:** ", page, "locale", JStr(En), "\n"),
             AuthorField("**Author:** ", page),
             Field("**Created:** ", page, "createdAt", "\n"),
             Field("**Updated:** ", page, "updatedAt", "\n"),
             TagsField(page),
             GetField("\n---\n\n", page, "content", EmptyStr, "")>>)

\* faulty variant: a page that was not found is raised as an exception
HandleWikiGetPageRaising(page) ==
    IF ~Truthy(page) THEN Raise(<<"Page not found">>) ELSE FormatPage(page)

\* _handle_wiki_get_page after the client has returned `page`
HandleWikiGetPage(page) ==
    IF ~Truthy(page) THEN Ok(<<"Page not found">>) ELSE FormatPage(page)

ListItem(page) ==
    Pieces(<<Field("**", page, "title", "**\n"),
             Field("Path: ", page, "path", ""),
             Field(" (ID: ", page, "id", ")\n"),
             OptField("Description: ", page, "description", "\n"),
             AuthorField("Author: ", page),
             Field("Updated: ", page, "updatedAt", "\n\n")>>)

\* _handle_wiki_list_pages after client.list_pages has returned `pages`
HandleWikiListPages(limit, offset, pages) ==
    IF ~Truthy(pages) THEN Ok(<<"No pages found">>)
    ELSE IF ~IsList(pages) THEN Raise(TypeError)
    ELSE ForEach([i \in 1..Len(Val(pages)) |-> ListItem(Val(pages)[i])],
                 <<"Found ">> \o StrInt(Len(Val(pages))) \o <<" pages (offset: ">>
                     \o PyStr(offset) \o <<", limit: ">> \o PyStr(limit) \o <<"):\n\n">>)

\* "  " * item.get('depth', 0)
RECURSIVE Indent(_)
Indent(depth) == IF depth <= 0 THEN <<>> ELSE <<"  ">> \o Indent(depth - 1)

TreeItem(item) ==
    LET depth == PyGet(item, "depth", JInt(0))
    IN  IF IsRaise(depth) THEN depth
        ELSE IF Tag(depth[2]) # "int" THEN Raise(TypeError)
        ELSE IF Truthy(DictGet(item, "isFolder", JNull))
             THEN Pieces(<<Ok(Indent(Val(depth[2]))), Field("[folder] ", item, "title", "/\n")>>)
        ELSE Pieces(<<Ok(Indent(Val(depth[2]))), Field("[page] ", item, "title", ""),
                      Field(" (", item, "path", ")\n")>>)

\* _handle_wiki_get_tree after client.get_page_tree has returned `tree`
HandleWikiGetTree(parent_path, tree) ==
    IF ~Truthy(tree) THEN Ok(<<"No pages found in tree">>)
    ELSE IF ~IsList(tree) THEN Raise(TypeError)
    ELSE ForEach([i \in 1..Len(Val(tree)) |-> TreeItem(Val(tree)[i])],
                 <<"Wiki page tree from '">>
                     \o (IF Truthy(parent_path) THEN PyStr(parent_path) ELSE <<"root">>)
                     \o <<"':\n\n">>)

\* _handle_wiki_create_page after client.create_page has returned `result`
HandleWikiCreatePage(kw, result) ==
    LET page_info == PyGet(result, "page", EmptyDict)
    IN  IF IsRaise(page_info) THEN page_info
        ELSE Pieces(<<Ok(<<"Successfully created page:\n\n">>),
                      GetField("**Title:** ", page_info[2], "title", kw.title, "\n"),
                      GetField("**Path:** ", page_info[2], "path", kw.path, "\n"),
                      GetField("**ID:** ", page_info[2], "id", JStr(<<"Unknown">>), "\n")>>)

\* _handle_wiki_update_page after client.update_page has returned `result`
HandleWikiUpdatePage(kw, result) ==
    LET page_info == PyGet(result, "page", EmptyDict)
    IN  IF IsRaise(page_info) THEN page_info
        ELSE Pieces(<<Ok(<<"Successfully updated page:\n\n">>),
                      GetField("**Title:** ", page_info[2], "title", JStr(<<"Unknown">>), "\n"),
                      GetField("**Path:** ", page_info[2], "path", JStr(<<"Unknown">>), "\n"),
                      GetField("**ID:** ", page_info[2], "id", kw.page_id, "\n"),
                      GetField("**Updated:** ", page_info[2], "updatedAt",
                               JStr(<<"Just now">>), "\n")>>)

(***************************************************************************)
(* The environment: what callers pass and what the upstream answers.        *)
(***************************************************************************)
ToolNames ==
    {"wiki_search", "wiki_get_page", "wiki_list_pages", "wiki_get_tree",
     "wiki_create_page", "wiki_update_page", "wiki_delete_page", "wiki_move_page"}

\* a name that no tool has
OtherNames == {"wiki_rename_page"}

\* all sequences over S of length at most n
RECURSIVE SeqsUpTo(_, _)
SeqsUpTo(S, n) ==
    IF n = 0 THEN {<<>>}
    ELSE LET shorter == SeqsUpTo(S, n - 1)
         IN  shorter \cup {Append(q, x) : q \in {r \in shorter : Len(r) = n - 1}, x \in S}

\* a dict with the keys of `keys`, taken from the record `full`
Restrict(full, keys) == [k \in keys |-> full[k]]

Queries == {JStr(<<"a">>), JStr(<<"A", "b">>)}
Limits == {JInt(n) : n \in -1..MaxLimit}

\* entries of pages.search.results, in the shape the search query selects
SearchResult(id, title, description, path) ==
    JObj([id |-> JStr(id), title |-> JStr(title), description |-> JStr(description),
          path |-> JStr(path), locale |-> JStr(En)])
SearchResultPool ==
    {SearchResult(<<"1">>, <<"A", "b">>, <<"d">>, <<"x">>),
     SearchResult(<<"2">>, <<"a">>, <<>>, <<"y">>),
     SearchResult(<<"3">>, <<"z">>, <<"a", "b">>, <<"z">>)}

\* entries of pages.list, in the shape the list query selects
ListEntry(id, title, description, path) ==
    [id |-> JInt(id), path |-> JStr(path), title |-> JStr(title), description |-> description,
     updatedAt |-> JStr(<<"t1">>), createdAt |-> JStr(<<"t0">>), locale |-> JStr(<<"f", "r">>)]
ListEntryPool ==
    {JObj(ListEntry(1, <<"A", "b">>, JStr(<<"d">>), <<"x">>)),
     JObj(ListEntry(12, <<"z">>, JStr(<<"B", "A", "B">>), <<"y">>)),
     JObj(Restrict(ListEntry(3, <<"z">>, JStr(<<>>), <<"z", "a", "B">>), {"id", "path", "title"})),
     JObj(ListEntry(4, <<"z">>, JStr(<<"d">>), <<"z">>)),
     JObj(ListEntry(5, <<"a">>, JNull, <<"n">>))}

\* a page as pages.single / pages.singleByPath return it
FullPage ==
    [id |-> JInt(7), path |-> JStr(<<"docs">>), title |-> JStr(<<"A">>),
     description |-> JStr(<<"d">>), content |-> JStr(<<"old">>), editor |-> JStr(<<"ckeditor">>),
     isPublished |-> JBool(FALSE), isPrivate |-> JBool(TRUE), locale |-> JStr(<<"f", "r">>),
     createdAt |-> JStr(<<"t0">>), updatedAt |-> JStr(<<"t1">>),
     tags |-> JList(<<JObj([id |-> JInt(1), tag |-> JStr(<<"x">>), title |-> JStr(<<"X">>)])>>)]
SinglePool ==
    {JNull, EmptyDict, JObj(FullPage),
     JObj(Restrict(FullPage, {"id", "title", "isPrivate"}))}

TreePool ==
    {JNull, EmptyList,
     JList(<<JObj([depth |-> JInt(0), title |-> JStr(<<"docs">>), isFolder |-> JBool(TRUE)]),
             JObj([depth |-> JInt(1), title |-> JStr(<<"A">>), path |-> JStr(<<"docs/a">>),
                   isFolder |-> JBool(FALSE)])>>),
     JList(<<JObj([title |-> JStr(<<"A">>)])>>)}

\* what a mutation's pages.<op> can hold
ResponseResults ==
    {JObj([succeeded |-> JBool(TRUE)]),
     JObj([succeeded |-> JBool(TRUE), message |-> JStr(<<"done">>)]),
     JObj([succeeded |-> JBool(FALSE), message |-> JStr(<<"slug taken">>)]),
     JObj([succeeded |-> JBool(FALSE)]),
     JObj([succeeded |-> JNull, message |-> JStr(<<"m">>)]),
     EmptyDict, JNull}
MutationPool ==
    {JNull, EmptyDict}
    \cup {JObj([responseResult |-> r]) : r \in ResponseResults}
    \cup {JObj([responseResult |-> r,
                page |-> JObj([id |-> JInt(9), path |-> JStr(<<"docs/x">>),
                               title |-> JStr(<<"X">>)])]) : r \in ResponseResults}

Http(status, body) == <<"http", status, body>>
Errors == JList(<<JStr(<<"boom">>)>>)

\* the data object whose pages.<op> is `leaf`
DataOf(op, leaf) == JObj([p \in {"pages"} |-> JObj([o \in {op} |-> leaf])])

\* the answers the upstream can give to a request for `op`: the failures
\* of every kind, and a 200 whose pages.<op> is one of `leaves`; `sample`
\* are the values sent along with an `errors` member
Replies(op, leaves, sample) ==
    {<<"connect_error">>,
     Http(500, EmptyDict), Http(404, JObj([errors |-> Errors])),
     Http(200, EmptyDict), Http(200, JObj([data |-> JNull])),
     Http(200, JObj([data |-> EmptyDict])),
     Http(200, JObj([data |-> JObj([pages |-> JNull])])),
     Http(200, JObj([data |-> JObj([pages |-> EmptyDict])])),
     Http(200, JObj([errors |-> Errors]))}
    \cup {Http(200, JObj([data |-> DataOf(op, l)])) : l \in leaves}
    \cup {Http(200, JObj([errors |-> e, data |-> DataOf(op, l)])) :
            e \in {Errors, EmptyList}, l \in sample}

SearchLeaves ==
    {JNull, EmptyDict, JObj([results |-> JNull])}
    \cup {JObj([results |-> JList(l), totalHits |-> JInt(Len(l))]) :
            l \in SeqsUpTo(SearchResultPool, MaxPages)}
ListLeaves == {JNull} \cup {JList(l) : l \in SeqsUpTo(ListEntryPool, MaxPages)}

SearchReplies ==
    Replies("search", SearchLeaves,
            {JObj([results |-> JList(<<SearchResult(<<"1">>, <<"a">>, <<>>, <<"x">>)>>)])})
ListReplies == Replies("list", ListLeaves, {EmptyList})

(***************************************************************************)
(* The state of one invocation.                                             *)
(***************************************************************************)
VARIABLES
    pc,          \* where the invocation is: "idle", the request it awaits, "done"
    caller,      \* "dispatcher" (handle_call_tool) or "client" (a direct call of a client method)
    name,        \* the tool name, or the client method called directly
    arguments,   \* the argument dict of the tool call
    kw,          \* the parameters the client method was called with
    current_page,\* update_page's local: the page read before the write
    calls,       \* the upstream requests issued so far, in order
    replies,     \* the upstream replies received so far, in order
    ret,         \* what the client method returned or raised
    exc,         \* the exception that reached handle_call_tool's except clause
    response,    \* what handle_call_tool returned
    clientOpen   \* the invocation's WikiJSClient is open

vars == <<pc, caller, name, arguments, kw, current_page, calls, replies, ret, exc, response,
          clientOpen>>

None == <<"none">>
Request(op, variables) == [op |-> op, variables |-> variables]

(***************************************************************************)
(* The state of concurrent invocations against one wiki page.  Every call   *)
(* of handle_call_tool is a coroutine with its own locals and its own       *)
(* WikiJSClient; the wiki's page is the only thing they have in common.     *)
(***************************************************************************)
VARIABLES
    inv,         \* per invocation: the coroutine's position and locals
    clients,     \* the WikiJSClient objects constructed so far, in order
    wiki         \* the upstream: the stored page, and the log of reads and writes

cvars == <<inv, clients, wiki>>

Invocations == 1..MaxInvocations

IdleInvocation ==
    [pc |-> "idle", name |-> "", arguments |-> EmptyDict, kw |-> <<>>, current_page |-> JNull,
     calls |-> <<>>, replies |-> <<>>, response |-> None, client |-> 0]

ConcurrentInit ==
    /\ inv = [i \in Invocations |-> IdleInvocation]
    /\ clients = <<>>
    /\ wiki = [page |-> FullPage, log |-> <<>>]

(***************************************************************************)
(* The state of a process: the files of the working directory, the process  *)
(* environment, the EnvEncryption object it uses and, for the server, the   *)
(* configuration it loaded and whether it serves.                           *)
(***************************************************************************)
VARIABLES
    fs,          \* path -> content of the file (Absent when there is none)
    environ,     \* os.environ: WIKIJS_URL and WIKIJS_API_KEY ("" when unset)
    enc,         \* the EnvEncryption object: env_path and encrypted_path
    epc,         \* where the process is
    entry,       \* how the server was started: "run" or "main"
    config,      \* the WikiJSConfig of the server, None before load_config
    validated,   \* validate_config has returned without raising
    requested,   \* a tool operation has sent a request to the wiki
    result       \* what the last operation returned or raised

evars == <<fs, environ, enc, epc, entry, config, validated, requested, result>>

EnvFile == ".env"
EncryptedFile == ".env.encrypted"
\* the file tempfile.NamedTemporaryFile(suffix='.env', delete=False) creates
TempFile == "/tmp/tmp0.env"
Paths == {EnvFile, EncryptedFile, EnvFile \o ".tmp", TempFile, TempFile \o ".tmp"}

\* file contents: none, nothing, the configuration in clear, or encrypted
Absent == <<"absent">>
Empty == <<"empty">>
Plain(cfg) == <<"plain", cfg>>
Cipher(cfg, password) == <<"cipher", cfg, password>>
IsPlain(content) == content[1] = "plain"

Configs == {[url |-> u, api_key |-> k] : u \in {"", "http://wiki"}, k \in {"", "key"}}
Passwords == {"pw", "wrong"}
Unset == [url |-> "", api_key |-> ""]

NoFiles == [p \in Paths |-> Absent]

\* the working directories a process can start in: a plain .env, an
\* encrypted one (password "pw"), both or none
EnvInit ==
    /\ \E cfg \in Configs, plain \in BOOLEAN, encrypted \in BOOLEAN :
          fs = [NoFiles EXCEPT ![EnvFile] = IF plain THEN Plain(cfg) ELSE Absent,
                               ![EncryptedFile] = IF encrypted THEN Cipher(cfg, "pw")
                                                  ELSE Absent]
    /\ environ \in {Unset, [url |-> "http://env", api_key |-> ""]}
    /\ enc = [env_path |-> EnvFile, encrypted_path |-> EncryptedFile]
    /\ epc = "start"
    /\ entry = ""
    /\ config = None
    /\ validated = FALSE
    /\ requested = FALSE
    /\ result = None

\* one of them: no file, nothing set
EnvParked ==
    /\ fs = NoFiles
    /\ environ = Unset
    /\ enc = [env_path |-> EnvFile, encrypted_path |-> EncryptedFile]
    /\ epc = "start"
    /\ entry = ""
    /\ config = None
    /\ validated = FALSE
    /\ requested = FALSE
    /\ result = None

InvocationInit ==
    /\ pc = "idle"
    /\ caller = "dispatcher"
    /\ name = ""
    /\ arguments = EmptyDict
    /\ kw = <<>>
    /\ current_page = JNull
    /\ calls = <<>>
    /\ replies = <<>>
    /\ ret = None
    /\ exc = None
    /\ response = None
    /\ clientOpen = FALSE

Init == InvocationInit /\ ConcurrentInit /\ EnvParked

(***************************************************************************)
(* handle_call_tool.                                                        *)
(***************************************************************************)
\* faulty variant: an exception of the handler leaves the dispatcher
ToolResponsePropagating(out) ==
    IF IsOk(out) THEN <<"text", out[2]>> ELSE <<"raised", out[2]>>

\* the TextContent handle_call_tool returns for the outcome of a handler
ToolResponse(out) ==
    IF IsOk(out) THEN <<"text", out[2]>> ELSE <<"text", <<"Error: ">> \o out[2]>>

Suspended(at, kwargs, req) == [at |-> at, kw |-> kwargs, req |-> req, out |-> None]
Finished(out) == [at |-> "done", kw |-> <<>>, req |-> None, out |-> out]

StartWikiSearch(args) ==
    IF ~Has(args, "query") THEN Finished(Raise(KeyError("query")))
    ELSE LET k == [query |-> Val(args)["query"],
                   limit |-> DictGet(args, "limit", JInt(DefaultSearchLimit))]
         IN  Suspended("search_primary", k, Request("search", SearchVariables(k.query)))

\* faulty variant: every lookup goes to getByPath
StartWikiGetPageByPathOnly(args) ==
    Suspended("get_by_path", [path |-> DictGet(args, "path", EmptyStr)],
              Request("getByPath", [path |-> DictGet(args, "path", EmptyStr),
                                    locale |-> JStr(En)]))

\* `if "path" in arguments` / else arguments["id"]; get_page_by_path is
\* called without a locale, so its default "en" is sent
StartWikiGetPage(args) ==
    IF Has(args, "path")
    THEN Suspended("get_by_path", [path |-> Val(args)["path"]],
                   Request("getByPath", [path |-> Val(args)["path"], locale |-> JStr(En)]))
    ELSE IF ~Has(args, "id") THEN Finished(Raise(KeyError("id")))
    ELSE Suspended("get_by_id", [page_id |-> Val(args)["id"]],
                   Request("getById", [id |-> Val(args)["id"]]))

StartWikiListPages(args) ==
    LET k == [limit |-> DictGet(args, "limit", JInt(DefaultListLimit)),
              offset |-> DictGet(args, "offset", JInt(0))]
    IN  Suspended("list_pages", k, Request("list", [limit |-> k.limit]))

StartWikiGetTree(args) ==
    LET k == [parent_path |-> DictGet(args, "parent_path", EmptyStr)]
    IN  Suspended("get_tree", k, Request("tree", TreeVariables(k.parent_path)))

StartWikiCreatePage(args) ==
    IF ~Has(args, "path") THEN Finished(Raise(KeyError("path")))
    ELSE IF ~Has(args, "title") THEN Finished(Raise(KeyError("title")))
    ELSE IF ~Has(args, "content") THEN Finished(Raise(KeyError("content")))
    ELSE LET k == [path |-> Val(args)["path"], title |-> Val(args)["title"],
                   content |-> Val(args)["content"],
                   description |-> DictGet(args, "description", EmptyStr),
                   tags |-> DictGet(args, "tags", EmptyList)]
         IN  Suspended("create_page", k, Request("create", CreateVariables(k)))

StartWikiUpdatePage(args) ==
    IF ~Has(args, "id") THEN Finished(Raise(KeyError("id")))
    ELSE IF ~Has(args, "content") THEN Finished(Raise(KeyError("content")))
    ELSE LET k == [page_id |-> Val(args)["id"], content |-> Val(args)["content"],
                   title |-> DictGet(args, "title", JNull),
                   description |-> DictGet(args, "description", JNull),
                   tags |-> DictGet(args, "tags", JNull)]
         IN  Suspended("update_read", k, Request("getById", [id |-> k.page_id]))

\* faulty variant: an unknown name is raised as an exception
UnknownToolRaising(n) == Finished(Raise(<<"Unknown tool: ", n>>))

\* the else branch of the chain
UnknownTool(n) == Finished(Ok(<<"Unknown tool: ", n>>))

\* the if/elif chain on the tool name: the handler runs up to its first
\* upstream request, or to its end when it makes none
Route(n, args) ==
    CASE n = "wiki_search" -> StartWikiSearch(args)
      [] n = "wiki_get_page" -> StartWikiGetPage(args)
      [] n = "wiki_list_pages" -> StartWikiListPages(args)
      [] n = "wiki_get_tree" -> StartWikiGetTree(args)
      [] n = "wiki_create_page" -> StartWikiCreatePage(args)
      [] n = "wiki_update_page" -> StartWikiUpdatePage(args)
      [] OTHER -> UnknownTool(n)

\* faulty variant: update_page without its `if not current_page` check
UpdateReadUnchecked(k, exec) ==
    LET page == GetPageById(exec)
    IN  IF IsRaise(page) THEN Finished(page)
        ELSE Suspended("update_write", k,
                       Request("update",
                               UpdateData(k.page_id, k,
                                          IF IsObj(page[2]) THEN page[2] ELSE EmptyDict)))

\* update_page after its get_page_by_id has been answered: not found, the
\* read's own failure, or the update mutation with the merged variables
UpdateRead(k, exec) ==
    LET page == GetPageById(exec)
    IN  IF IsRaise(page) THEN Finished(page)
        ELSE IF ~Truthy(page[2]) THEN Finished(Raise(PageNotFound(k.page_id)))
        ELSE IF ~IsObj(page[2]) THEN Finished(Raise(AttributeError))
        ELSE Suspended("update_write", k,
                       Request("update", UpdateData(k.page_id, k, page[2])))

(***************************************************************************)
(* The argument dicts callers pass.                                         *)
(***************************************************************************)
SearchArguments ==
    {EmptyDict}
    \cup {JObj([query |-> q]) : q \in Queries}
    \cup {JObj([query |-> q, limit |-> l]) : q \in Queries, l \in Limits}

GetPageArguments ==
    {JObj(Restrict([path |-> JStr(<<"docs">>), id |-> JInt(7), locale |-> JStr(<<"f", "r">>)],
                   ks)) : ks \in SUBSET {"path", "id", "locale"}}

ListPagesArguments ==
    {EmptyDict, JObj([limit |-> JInt(MaxLimit)]),
     JObj([limit |-> JInt(MaxLimit), offset |-> JInt(1)])}

GetTreeArguments ==
    {EmptyDict, JObj([parent_path |-> JStr(<<"docs">>)]),
     JObj([parent_path |-> EmptyStr, mode |-> JStr(<<"PAGES">>), locale |-> JStr(<<"f", "r">>),
           parent_id |-> JInt(7)])}

CreatePageFull ==
    [path |-> JStr(<<"docs/x">>), title |-> JStr(<<"X">>), content |-> JStr(<<"body">>),
     description |-> JStr(<<"d">>), tags |-> JList(<<JStr(<<"t">>)>>)]
CreatePageArguments ==
    {JObj(Restrict(CreatePageFull, ks)) :
        ks \in SUBSET {"path", "title", "content", "description", "tags"}}

UpdatePageFull ==
    [id |-> JInt(7), content |-> JStr(<<"new">>), title |-> EmptyStr,
     description |-> JStr(<<"D">>), tags |-> JList(<<JStr(<<"t">>)>>)]
UpdatePageArguments ==
    {JObj(Restrict(UpdatePageFull, ks)) :
        ks \in SUBSET {"id", "content", "title", "description", "tags"}}

ToolArguments(n) ==
    CASE n = "wiki_search" -> SearchArguments
      [] n = "wiki_get_page" -> GetPageArguments
      [] n = "wiki_list_pages" -> ListPagesArguments
      [] n = "wiki_get_tree" -> GetTreeArguments
      [] n = "wiki_create_page" -> CreatePageArguments
      [] n = "wiki_update_page" -> UpdatePageArguments
      [] n = "wiki_delete_page" -> {JObj([id |-> JInt(7)])}
      [] n = "wiki_move_page" ->
            {JObj([id |-> JInt(7), destination_path |-> JStr(<<"docs/y">>)])}
      [] OTHER -> {EmptyDict}

\* the keyword arguments of a direct call of WikiJSClient.update_page
UpdatePageSupplied ==
    [content |-> EmptyStr, title |-> JStr(<<"T">>), description |-> EmptyStr,
     tags |-> JList(<<JStr(<<"t">>)>>), editor |-> JStr(<<"markdown">>),
     is_private |-> JBool(FALSE), is_published |-> JBool(TRUE), locale |-> JStr(En),
     path |-> JStr(<<"p">>)]
UpdatePageKwargs ==
    {[page_id |-> JInt(7)] @@ Restrict(UpdatePageSupplied, ks) :
        ks \in SUBSET DOMAIN UpdatePageSupplied}
    \cup {[page_id |-> JInt(7), tags |-> EmptyList, content |-> JStr(<<"new">>)]}

\* the arguments of direct calls of WikiJSClient.delete_page and move_page
PageIds == {JInt(7), JInt(999)}
MovePageKwargs ==
    {[page_id |-> JInt(7), destination_path |-> JStr(<<"docs/y">>), destination_locale |-> l] :
        l \in {JStr(En), JStr(<<"f", "r">>)}}

(***************************************************************************)
(* The steps of an invocation.                                              *)
(***************************************************************************)
\* take the step `st` of the running call: suspend at the next request, or
\* end with `clientRet` as the client method's outcome
Step(st, clientRet, who) ==
    IF st.at = "done"
    THEN /\ pc' = "done"
         /\ calls' = calls
         /\ ret' = clientRet
         /\ exc' = IF who = "dispatcher" /\ IsRaise(st.out) THEN st.out[2] ELSE None
         /\ response' = IF who = "dispatcher" THEN ToolResponse(st.out) ELSE None
         /\ clientOpen' = FALSE
    ELSE /\ pc' = st.at
         /\ calls' = Append(calls, st.req)
         /\ ret' = None
         /\ exc' = None
         /\ response' = None
         /\ clientOpen' = TRUE

\* handle_call_tool(name, arguments) is called
CallTool(n, args) ==
    /\ pc = "idle"
    /\ LET st == Route(n, args)
       IN  /\ kw' = st.kw
           /\ Step(st, None, "dispatcher")
    /\ caller' = "dispatcher"
    /\ name' = n
    /\ arguments' = args
    /\ UNCHANGED <<current_page, replies>>
    /\ UNCHANGED <<cvars, evars>>

\* WikiJSClient.update_page(**k) is called directly
CallUpdatePage(k) ==
    /\ pc = "idle"
    /\ kw' = k
    /\ Step(Suspended("update_read", k, Request("getById", [id |-> k.page_id])), None, "client")
    /\ caller' = "client"
    /\ name' = "update_page"
    /\ arguments' = EmptyDict
    /\ UNCHANGED <<current_page, replies>>
    /\ UNCHANGED <<cvars, evars>>

\* WikiJSClient.delete_page(page_id) is called directly
CallDeletePage(page_id) ==
    /\ pc = "idle"
    /\ kw' = [page_id |-> page_id]
    /\ Step(Suspended("delete_page", [page_id |-> page_id],
                      Request("delete", DeleteVariables(page_id))), None, "client")
    /\ caller' = "client"
    /\ name' = "delete_page"
    /\ arguments' = EmptyDict
    /\ UNCHANGED <<current_page, replies>>
    /\ UNCHANGED <<cvars, evars>>

\* WikiJSClient.move_page(**k) is called directly
CallMovePage(k) ==
    /\ pc = "idle"
    /\ kw' = k
    /\ Step(Suspended("move_page", k, Request("move", MoveVariables(k))), None, "client")
    /\ caller' = "client"
    /\ name' = "move_page"
    /\ arguments' = EmptyDict
    /\ UNCHANGED <<current_page, replies>>
    /\ UNCHANGED <<cvars, evars>>

\* the search request is answered
SearchPrimaryReply(reply) ==
    /\ pc = "search_primary"
    /\ replies' = Append(replies, reply)
    /\ LET r == SearchPrimary(ExecuteQuery(reply), kw.limit)
       IN  IF IsRaise(r)
           THEN Step(Suspended("search_fallback", kw,
                               Request("list", [limit |-> JInt(FallbackListLimit)])),
                     None, caller)
           ELSE Step(Finished(HandleWikiSearch(kw.query, kw.limit, r[2])), r, caller)
    /\ UNCHANGED <<caller, name, arguments, kw, current_page>>
    /\ UNCHANGED <<cvars, evars>>

\* the list request of the search fallback is answered
SearchFallbackReply(reply) ==
    /\ pc = "search_fallback"
    /\ replies' = Append(replies, reply)
    /\ LET r == SearchFallback(ExecuteQuery(reply), kw.query, kw.limit)
       IN  Step(Finished(IF IsRaise(r) THEN r ELSE HandleWikiSearch(kw.query, kw.limit, r[2])),
                r, caller)
    /\ UNCHANGED <<caller, name, arguments, kw, current_page>>
    /\ UNCHANGED <<cvars, evars>>

\* the getByPath request of wiki_get_page is answered
GetByPathReply(reply) ==
    /\ pc = "get_by_path"
    /\ replies' = Append(replies, reply)
    /\ LET r == GetPageByPath(ExecuteQuery(reply))
       IN  Step(Finished(IF IsRaise(r) THEN r ELSE HandleWikiGetPage(r[2])), r, caller)
    /\ UNCHANGED <<caller, name, arguments, kw, current_page>>
    /\ UNCHANGED <<cvars, evars>>

\* the getById request of wiki_get_page is answered
GetByIdReply(reply) ==
    /\ pc = "get_by_id"
    /\ replies' = Append(replies, reply)
    /\ LET r == GetPageById(ExecuteQuery(reply))
       IN  Step(Finished(IF IsRaise(r) THEN r ELSE HandleWikiGetPage(r[2])), r, caller)
    /\ UNCHANGED <<caller, name, arguments, kw, current_page>>
    /\ UNCHANGED <<cvars, evars>>

\* the list request of wiki_list_pages is answered
ListPagesReply(reply) ==
    /\ pc = "list_pages"
    /\ replies' = Append(replies, reply)
    /\ LET r == ListPages(ExecuteQuery(reply))
       IN  Step(Finished(IF IsRaise(r) THEN r
                         ELSE HandleWikiListPages(kw.limit, kw.offset, r[2])), r, caller)
    /\ UNCHANGED <<caller, name, arguments, kw, current_page>>
    /\ UNCHANGED <<cvars, evars>>

\* the tree request of wiki_get_tree is answered
GetTreeReply(reply) ==
    /\ pc = "get_tree"
    /\ replies' = Append(replies, reply)
    /\ LET r == GetPageTree(ExecuteQuery(reply))
       IN  Step(Finished(IF IsRaise(r) THEN r ELSE HandleWikiGetTree(kw.parent_path, r[2])),
                r, caller)
    /\ UNCHANGED <<caller, name, arguments, kw, current_page>>
    /\ UNCHANGED <<cvars, evars>>

\* the create mutation is answered
CreatePageReply(reply) ==
    /\ pc = "create_page"
    /\ replies' = Append(replies, reply)
    /\ LET r == CreatePage(ExecuteQuery(reply))
       IN  Step(Finished(IF IsRaise(r) THEN r ELSE HandleWikiCreatePage(kw, r[2])), r, caller)
    /\ UNCHANGED <<caller, name, arguments, kw, current_page>>
    /\ UNCHANGED <<cvars, evars>>

\* the getById request of update_page is answered
UpdateReadReply(reply) ==
    /\ pc = "update_read"
    /\ replies' = Append(replies, reply)
    /\ LET st == UpdateRead(kw, ExecuteQuery(reply))
       IN  /\ Step(st, st.out, caller)
           /\ current_page' = IF st.at = "done" THEN current_page
                              ELSE GetPageById(ExecuteQuery(reply))[2]
    /\ UNCHANGED <<caller, name, arguments, kw>>
    /\ UNCHANGED <<cvars, evars>>

\* the update mutation is answered
UpdateWriteReply(reply) ==
    /\ pc = "update_write"
    /\ replies' = Append(replies, reply)
    /\ LET r == UpdatePage(ExecuteQuery(reply))
       IN  Step(Finished(IF IsRaise(r) THEN r ELSE HandleWikiUpdatePage(kw, r[2])), r, caller)
    /\ UNCHANGED <<caller, name, arguments, kw, current_page>>
    /\ UNCHANGED <<cvars, evars>>

\* the delete mutation is answered
DeletePageReply(reply) ==
    /\ pc = "delete_page"
    /\ replies' = Append(replies, reply)
    /\ LET r == DeletePage(ExecuteQuery(reply))
       IN  Step(Finished(r), r, caller)
    /\ UNCHANGED <<caller, name, arguments, kw, current_page>>
    /\ UNCHANGED <<cvars, evars>>

\* the move mutation is answered
MovePageReply(reply) ==
    /\ pc = "move_page"
    /\ replies' = Append(replies, reply)
    /\ LET r == MovePage(ExecuteQuery(reply))
       IN  Step(Finished(r), r, caller)
    /\ UNCHANGED <<caller, name, arguments, kw, current_page>>
    /\ UNCHANGED <<cvars, evars>>

SingleReplies == Replies("single", SinglePool, {JObj(FullPage)})
SingleByPathReplies == Replies("singleByPath", SinglePool, {JObj(FullPage)})
TreeReplies == Replies("tree", TreePool, {EmptyList})
CreateReplies == Replies("create", MutationPool, {JObj([responseResult |-> JObj([succeeded |-> JBool(TRUE)])])})
UpdateReplies == Replies("update", MutationPool, {JObj([responseResult |-> JObj([succeeded |-> JBool(TRUE)])])})
DeleteReplies == Replies("delete", MutationPool, {JObj([responseResult |-> JObj([succeeded |-> JBool(TRUE)])])})
MoveReplies == Replies("move", MutationPool, {JObj([responseResult |-> JObj([succeeded |-> JBool(TRUE)])])})

Next ==
    \/ \E n \in ToolNames \cup OtherNames : \E args \in ToolArguments(n) : CallTool(n, args)
    \/ \E k \in UpdatePageKwargs : CallUpdatePage(k)
    \/ \E page_id \in PageIds : CallDeletePage(page_id)
    \/ \E k \in MovePageKwargs : CallMovePage(k)
    \/ \E reply \in SearchReplies : SearchPrimaryReply(reply)
    \/ \E reply \in ListReplies : SearchFallbackReply(reply)
    \/ \E reply \in SingleByPathReplies : GetByPathReply(reply)
    \/ \E reply \in SingleReplies : GetByIdReply(reply)
    \/ \E reply \in ListReplies : ListPagesReply(reply)
    \/ \E reply \in TreeReplies : GetTreeReply(reply)
    \/ \E reply \in CreateReplies : CreatePageReply(reply)
    \/ \E reply \in SingleReplies : UpdateReadReply(reply)
    \/ \E reply \in UpdateReplies : UpdateWriteReply(reply)
    \/ \E reply \in DeleteReplies : DeletePageReply(reply)
    \/ \E reply \in MoveReplies : MovePageReply(reply)

Spec == Init /\ [][Next]_vars

(***************************************************************************)
(* Concurrent invocations of handle_call_tool against one page of the wiki. *)
(* The wiki answers a read with the page it stores at that moment and       *)
(* applies an update mutation to it; other writers edit the page too.       *)
(***************************************************************************)
ConcurrentTools == {"wiki_get_page", "wiki_update_page", "wiki_rename_page"}

ConcurrentArguments(n) ==
    CASE n = "wiki_get_page" -> {JObj([id |-> JInt(7)])}
      [] n = "wiki_update_page" ->
            {JObj([id |-> JInt(7), content |-> JStr(<<"new">>)]),
             JObj([id |-> JInt(7), content |-> JStr(<<"c2">>), title |-> JStr(<<"T">>)])}
      [] OTHER -> {EmptyDict}

\* the continuation of a handler when the request it awaits is answered
Resume(at, k, reply) ==
    CASE at = "get_by_id" ->
            LET r == GetPageById(ExecuteQuery(reply))
            IN  Finished(IF IsRaise(r) THEN r ELSE HandleWikiGetPage(r[2]))
      [] at = "update_read" -> UpdateRead(k, ExecuteQuery(reply))
      [] at = "update_write" ->
            LET r == UpdatePage(ExecuteQuery(reply))
            IN  Finished(IF IsRaise(r) THEN r ELSE HandleWikiUpdatePage(k, r[2]))

\* faulty variant: an exception of the handler leaves the client open
OpenAfterLeaky(st) == st.at # "done" \/ IsRaise(st.out)

\* `async with WikiJSClient(self.config) as client`: the client is open
\* while the handler is inside the block, and closed on every way out of it
OpenAfter(st) == st.at # "done"

\* faulty variant: the locals are kept on the server object, where the
\* invocation started last overwrites them
FrameShared(i) == inv[clients[Len(clients)].owner]

\* the frame of invocation i's coroutine: its own locals
Frame(i) == inv[i]

\* the page after the wiki has applied the variables of an update mutation
Applied(page, variables) ==
    [f \in DOMAIN page |->
        IF f = "tags"
        THEN IF "tags" \in DOMAIN variables
             THEN JList([t \in 1..Len(Val(variables.tags)) |->
                            JObj([tag |-> Val(variables.tags)[t]])])
             ELSE page.tags
        ELSE IF f \in DOMAIN variables THEN variables[f] ELSE page[f]]

\* what the wiki can do with a request: the reply, the page afterwards and
\* whether the page was read or written
WikiServes(req, page) ==
    {[reply |-> <<"connect_error">>, page |-> page, kind |-> "none"]}
    \cup IF req.op = "getById"
         THEN {[reply |-> Http(200, JObj([data |->
                              DataOf("single", IF req.variables.id = page.id THEN JObj(page)
                                               ELSE JNull)])),
                page |-> page, kind |-> "read"]}
         ELSE {[reply |-> Http(200, JObj([data |->
                              DataOf("update",
                                     JObj([responseResult |-> JObj([succeeded |-> JBool(TRUE)]),
                                           page |-> JObj(Restrict(Applied(page, req.variables),
                                                                  {"id", "path", "title"}))]))])),
                page |-> Applied(page, req.variables), kind |-> "write"]}

\* the log of the wiki after a read or a write by `who` (0: another writer)
Logged(who, kind, page) ==
    IF kind = "none" THEN wiki.log ELSE Append(wiki.log, [who |-> who, kind |-> kind, page |-> page])

\* handle_call_tool(n, args) is called while other invocations are in flight
Invoke(i, n, args) ==
    /\ inv[i].pc = "idle"
    /\ \A j \in 1..(i - 1) : inv[j].pc # "idle"
    /\ LET st == Route(n, args)
       IN  /\ clients' = Append(clients, [owner |-> i, open |-> OpenAfter(st)])
           /\ inv' = [inv EXCEPT ![i] =
                         [pc |-> st.at, name |-> n, arguments |-> args, kw |-> st.kw,
                          current_page |-> JNull,
                          calls |-> IF st.at = "done" THEN <<>> ELSE <<st.req>>,
                          replies |-> <<>>,
                          response |-> IF st.at = "done" THEN ToolResponse(st.out) ELSE None,
                          client |-> Len(clients) + 1]]
    /\ UNCHANGED <<wiki, vars, evars>>

\* the wiki serves the request invocation i awaits, and the handler resumes
Answer(i) ==
    /\ inv[i].pc \notin {"idle", "done"}
    /\ \E served \in WikiServes(inv[i].calls[Len(inv[i].calls)], wiki.page) :
          LET st == Resume(inv[i].pc, Frame(i).kw, served.reply)
          IN  /\ wiki' = [page |-> served.page, log |-> Logged(i, served.kind, served.page)]
              /\ clients' = [clients EXCEPT ![inv[i].client].open = OpenAfter(st)]
              /\ inv' = [inv EXCEPT ![i] =
                            [@ EXCEPT !.pc = st.at,
                                      !.current_page =
                                          IF inv[i].pc = "update_read" /\ st.at # "done"
                                          THEN GetPageById(ExecuteQuery(served.reply))[2]
                                          ELSE @,
                                      !.calls = IF st.at = "done" THEN @ ELSE Append(@, st.req),
                                      !.replies = Append(@, served.reply),
                                      !.response = IF st.at = "done" THEN ToolResponse(st.out)
                                                   ELSE None]]
    /\ UNCHANGED <<vars, evars>>

\* another writer (an editor in the wiki's own interface) changes a field
ExternalEdit(f, v) ==
    /\ Cardinality({k \in 1..Len(wiki.log) : wiki.log[k].who = 0}) < MaxEdits
    /\ wiki.page[f] # v
    /\ LET page == [wiki.page EXCEPT ![f] = v]
       IN  wiki' = [page |-> page, log |-> Logged(0, "write", page)]
    /\ UNCHANGED <<inv, clients, vars, evars>>

ConcurrentNext ==
    \/ \E i \in Invocations, n \in ConcurrentTools :
          \E args \in ConcurrentArguments(n) : Invoke(i, n, args)
    \/ \E i \in Invocations : Answer(i)
    \/ ExternalEdit("title", JStr(<<"E">>))

ConcurrentSpec == Init /\ [][ConcurrentNext]_cvars

(***************************************************************************)
(* The processes around the configuration: the server's startup             *)
(* (WikiJSMCPServer(), then run() or main()) and EnvEncryption's file       *)
(* operations (wikijs_mcp/config.py, wikijs_mcp/crypto.py).                 *)
(***************************************************************************)
Write(files, path, content) == [files EXCEPT ![path] = content]
Remove(files, path) == [files EXCEPT ![path] = Absent]
Exists(files, path) == files[path] # Absent

\* load_dotenv(path): a variable the environment already has is kept
LoadDotenv(env, content) ==
    IF IsPlain(content)
    THEN [k \in DOMAIN env |-> IF env[k] = "" THEN content[2][k] ELSE env[k]]
    ELSE env

\* EnvEncryption.decrypt_env_file(password, temp_decrypt): False when the
\* encrypted file is missing or does not decrypt with the password
DecryptEnvFile(files, e, password, temp_decrypt) ==
    IF ~Exists(files, e.encrypted_path) THEN [fs |-> files, ok |-> FALSE]
    ELSE LET encrypted_content == files[e.encrypted_path]
             output_path == IF ~temp_decrypt THEN e.env_path ELSE e.env_path \o ".tmp"
         IN  IF encrypted_content[1] # "cipher" \/ encrypted_content[3] # password
             THEN [fs |-> files, ok |-> FALSE]
             ELSE [fs |-> Write(files, output_path, Plain(encrypted_content[2])), ok |-> TRUE]

\* WikiJSConfig.load_config(".env"), up to the construction of the config:
\* the files and environment afterwards, the EnvEncryption object at the
\* end, whether the encrypted branch was taken and whether it raised
LoadConfig(files, env, password) ==
    LET encryption == [env_path |-> EnvFile, encrypted_path |-> EncryptedFile]
    IN  IF Exists(files, EnvFile)
        THEN [fs |-> files, environ |-> LoadDotenv(env, files[EnvFile]), enc |-> encryption,
              encrypted |-> FALSE, raised |-> FALSE]
        ELSE IF Exists(files, encryption.encrypted_path)
        THEN LET temp_path == TempFile
                 created == Write(files, temp_path, Empty)
                 original_path == encryption.env_path
                 pointed == [encryption EXCEPT !.env_path = temp_path]
                 d == DecryptEnvFile(created, pointed, password, TRUE)
             IN  [fs |-> IF Exists(d.fs, temp_path) THEN Remove(d.fs, temp_path) ELSE d.fs,
                  environ |-> IF d.ok THEN LoadDotenv(env, d.fs[temp_path]) ELSE env,
                  enc |-> [pointed EXCEPT !.env_path = original_path],
                  encrypted |-> TRUE, raised |-> ~d.ok]
        ELSE [fs |-> files, environ |-> env, enc |-> encryption,
              encrypted |-> FALSE, raised |-> FALSE]

\* WikiJSConfig.validate_config: TRUE when it returns, FALSE when it raises
ValidateConfig(cfg) == cfg.url # "" /\ cfg.api_key # ""

\* EnvEncryption.edit_env_file: `exit_code` is the editor's, `deleted` says
\* the editor removed the temporary file, `edited` is what it saved, and
\* `fails` that re-encrypting raises (the encrypted file cannot be written)
EditEnvFile(files, e, password, exit_code, deleted, edited, fails) ==
    IF ~Exists(files, e.encrypted_path) THEN [fs |-> files, enc |-> e, ret |-> FALSE]
    ELSE LET d == DecryptEnvFile(files, e, password, TRUE)
             temp_file == e.env_path \o ".tmp"
             closed == IF deleted THEN Remove(d.fs, temp_file)
                       ELSE Write(d.fs, temp_file, Plain(edited))
         IN  IF ~d.ok THEN [fs |-> d.fs, enc |-> e, ret |-> FALSE]
             ELSE IF exit_code # 0 THEN [fs |-> Remove(closed, temp_file), enc |-> e, ret |-> FALSE]
             ELSE IF ~Exists(closed, temp_file) THEN [fs |-> closed, enc |-> e, ret |-> FALSE]
             ELSE LET original_path == e.env_path
                      pointed == [e EXCEPT !.env_path = temp_file]
                  IN  IF fails
                      THEN [fs |-> Remove(closed, temp_file), enc |-> pointed, ret |-> FALSE]
                      ELSE [fs |-> Remove(Write(closed, e.encrypted_path,
                                                Cipher(closed[temp_file][2], password)),
                                          temp_file),
                            enc |-> [pointed EXCEPT !.env_path = original_path],
                            ret |-> TRUE]

Outcome(op, ok, encrypted) == [op |-> op, ok |-> ok, encrypted |-> encrypted]

\* WikiJSMCPServer() is constructed, for run() or for main(): load_config
Construct(how, password) ==
    /\ epc = "start"
    /\ LET l == LoadConfig(fs, environ, password)
       IN  /\ fs' = l.fs
           /\ environ' = l.environ
           /\ enc' = l.enc
           /\ config' = IF l.raised THEN None ELSE l.environ
           /\ result' = Outcome("load_config", ~l.raised, l.encrypted)
           /\ epc' = IF l.raised THEN "failed" ELSE "constructed"
    /\ entry' = how
    /\ UNCHANGED <<validated, requested, vars, cvars>>

\* WikiJSMCPServer.run: validate_config, then the server serves
Run ==
    /\ epc = "constructed" /\ entry = "run"
    /\ validated' = ValidateConfig(config)
    /\ epc' = IF ValidateConfig(config) THEN "serving" ELSE "failed"
    /\ result' = Outcome("run", ValidateConfig(config), result.encrypted)
    /\ UNCHANGED <<fs, environ, enc, entry, config, requested, vars, cvars>>

\* main: the server serves on stdio
Main ==
    /\ epc = "constructed" /\ entry = "main"
    /\ epc' = "serving"
    /\ result' = Outcome("main", TRUE, result.encrypted)
    /\ UNCHANGED <<fs, environ, enc, entry, config, validated, requested, vars, cvars>>

\* a tool operation executes: its client posts to config.graphql_url with
\* config.headers; without a URL there is nothing to post to
Operate ==
    /\ epc = "serving"
    /\ requested' = (config.url # "")
    /\ epc' = "served"
    /\ UNCHANGED <<fs, environ, enc, entry, config, validated, result, vars, cvars>>

\* `wikijs-env edit`: edit_env_file on the process's EnvEncryption object
Edit(password, exit_code, deleted, edited, fails) ==
    /\ epc = "start"
    /\ LET r == EditEnvFile(fs, enc, password, exit_code, deleted, edited, fails)
       IN  /\ fs' = r.fs
           /\ enc' = r.enc
           /\ result' = Outcome("edit_env_file", r.ret, FALSE)
    /\ epc' = "edited"
    /\ UNCHANGED <<environ, entry, config, validated, requested, vars, cvars>>

\* a later decrypt_env_file on the same object
LaterDecrypt(password) ==
    /\ epc = "edited"
    /\ LET d == DecryptEnvFile(fs, enc, password, FALSE)
       IN  /\ fs' = d.fs
           /\ result' = Outcome("decrypt_env_file", d.ok, FALSE)
    /\ epc' = "exited"
    /\ UNCHANGED <<environ, enc, entry, config, validated, requested, vars, cvars>>

EnvNext ==
    \/ \E how \in {"run", "main"}, password \in Passwords : Construct(how, password)
    \/ Run
    \/ Main
    \/ Operate
    \/ \E password \in Passwords, exit_code \in {0, 1}, deleted \in BOOLEAN,
          edited \in Configs, fails \in BOOLEAN :
          Edit(password, exit_code, deleted, edited, fails)
    \/ \E password \in Passwords : LaterDecrypt(password)

\* a process starts with no invocation in flight
EnvStart == InvocationInit /\ ConcurrentInit /\ EnvInit

EnvSpec == EnvStart /\ [][EnvNext]_evars

(***************************************************************************)
(* Vocabulary of the properties.                                            *)
(***************************************************************************)
ByDispatcher(n) == caller = "dispatcher" /\ name = n /\ pc # "idle"
Returned == pc = "done"

\* the response is the dispatcher's error text
IsErrorResponse(r) == r[1] = "text" /\ Len(r[2]) > 0 /\ r[2][1] = "Error: "

\* the operations requested upstream so far
Ops == [i \in 1..Len(calls) |-> calls[i].op]

\* the first m elements of a list
Prefix(l, m) == [i \in 1..(IF m < Len(l) THEN m ELSE Len(l)) |-> l[i]]

\* the reply is a 2xx response without an `errors` member
Answered(reply) == reply[1] = "http" /\ reply[2] \in 200..299 /\ ~Has(reply[3], "errors")

\* the reply is a failure by the Gateway's contract: no response, a non-2xx
\* status, or a non-empty `errors` array
Failed(reply) ==
    \/ reply[1] = "connect_error"
    \/ reply[2] \notin 200..299
    \/ Has(reply[3], "errors") /\ Truthy(Val(reply[3])["errors"])

\* the reply carries data.pages.<op>; LeafOf is that value
HasLeaf(reply, op) ==
    /\ reply[1] = "http"
    /\ Has(reply[3], "data") /\ IsObj(Val(reply[3])["data"])
    /\ Has(Val(reply[3])["data"], "pages") /\ IsObj(Val(Val(reply[3])["data"])["pages"])
    /\ Has(Val(Val(reply[3])["data"])["pages"], op)
LeafOf(reply, op) == Val(Val(Val(reply[3])["data"])["pages"])[op]

(***************************************************************************)
(* C1.  A wiki_get_page call whose arguments hold both `path` and `id`, or  *)
(* neither, fails with a validation error and issues no upstream request.   *)
(***************************************************************************)
C1_GetPageValidation ==
    (ByDispatcher("wiki_get_page") /\ Has(arguments, "path") = Has(arguments, "id"))
        => /\ Len(calls) = 0
           /\ Returned /\ IsErrorResponse(response)

(***************************************************************************)
(* C2.  When search_pages returns at least one match (from the primary or   *)
(* the fallback path), the wiki_search tool call returns the formatted list *)
(* of those matches and not an error response.                              *)
(***************************************************************************)
C2_SearchFormatsMatches ==
    (ByDispatcher("wiki_search") /\ Returned /\ IsOk(ret) /\ IsList(ret[2])
                                 /\ Len(Val(ret[2])) > 0)
        => /\ ~IsErrorResponse(response)
           /\ response[2][1] = "Found "

(***************************************************************************)
(* C3.  UpdatePage merge: the variables of the update mutation carry the    *)
(* supplied value for every supplied field (an empty string and false       *)
(* included) and the value read from the current page for every field not   *)
(* supplied; tags are sent as [] when omitted.                              *)
(***************************************************************************)
\* the fields of the update mutation: variable, parameter of update_page,
\* and the value update_page uses when the page read has no such field
UpdateFields ==
    {<<"content", "content", EmptyStr>>, <<"title", "title", EmptyStr>>,
     <<"description", "description", EmptyStr>>, <<"editor", "editor", JStr(<<"markdown">>)>>,
     <<"isPrivate", "is_private", JBool(FALSE)>>, <<"isPublished", "is_published", JBool(TRUE)>>,
     <<"locale", "locale", JStr(En)>>, <<"path", "path", EmptyStr>>}

\* the caller supplied parameter p (None is "not supplied")
SuppliedTo(p) == p \in DOMAIN kw /\ ~IsNull(kw[p])

UpdateIssued == Len(calls) = 2 /\ calls[2].op = "update"

C3_UpdateMerge ==
    UpdateIssued =>
        LET sent == calls[2].variables
            read == LeafOf(replies[1], "single")
        IN  /\ sent.id = kw.page_id
            /\ \A f \in UpdateFields :
                  sent[f[1]] = IF SuppliedTo(f[2]) THEN kw[f[2]]
                               ELSE IF Has(read, f[1]) THEN Val(read)[f[1]]
                               ELSE f[3]
            /\ sent.tags = IF SuppliedTo("tags") THEN kw.tags ELSE EmptyList

\* an update that supplies "" as content and false as is_private, and no
\* title, for a page with content "old", isPrivate true, title "A" and a tag
C3_Witness ==
    /\ UpdateIssued
    /\ SuppliedTo("content") /\ kw.content = EmptyStr
    /\ SuppliedTo("is_private") /\ kw.is_private = JBool(FALSE)
    /\ ~SuppliedTo("title") /\ ~SuppliedTo("tags")
    /\ LeafOf(replies[1], "single") = JObj(FullPage)
    /\ calls[2].variables.content = EmptyStr
    /\ calls[2].variables.isPrivate = JBool(FALSE)
    /\ calls[2].variables.title = JStr(<<"A">>)
    /\ calls[2].variables.tags = EmptyList

(***************************************************************************)
(* C4.  UpdatePage issues the update mutation only after its getById read   *)
(* has been answered with a non-null page; when the read returns null or    *)
(* fails, update_page raises ("not found", or the read's error) and issues  *)
(* no write.                                                                *)
(***************************************************************************)
IsUpdate == (caller = "client" /\ name = "update_page") \/ ByDispatcher("wiki_update_page")

\* the read was answered with pages.single null or missing
ReadNull(reply) ==
    /\ Answered(reply)
    /\ IF HasLeaf(reply, "single") THEN IsNull(LeafOf(reply, "single"))
       ELSE /\ Has(reply[3], "data") => IsObj(Val(reply[3])["data"])
            /\ (Has(reply[3], "data") /\ Has(Val(reply[3])["data"], "pages"))
                   => IsObj(Val(Val(reply[3])["data"])["pages"])

C4_UpdateReadBeforeWrite ==
    /\ \A i \in 1..Len(calls) :
          calls[i].op = "update" =>
              /\ i = 2 /\ calls[1].op = "getById"
              /\ Len(replies) >= 1
              /\ HasLeaf(replies[1], "single") /\ ~IsNull(LeafOf(replies[1], "single"))
    /\ (IsUpdate /\ Len(replies) >= 1 /\ (ReadNull(replies[1]) \/ Failed(replies[1])))
           => /\ Returned /\ Ops = <<"getById">>
              /\ IsRaise(ret)
              /\ ReadNull(replies[1]) => ret = Raise(PageNotFound(kw.page_id))
              /\ replies[1][1] = "connect_error" => ret = Raise(ConnectError)
              /\ (replies[1][1] = "http" /\ replies[1][2] \notin 200..299)
                     => ret = Raise(ApiRequestFailed(replies[1][2]))

\* the read returned null: "not found" and a single request
C4_Witness ==
    /\ IsUpdate /\ Returned
    /\ Len(replies) = 1
    /\ ReadNull(replies[1]) /\ HasLeaf(replies[1], "single")
    /\ ret = Raise(<<"Page with ID ", "7", " not found">>)
    /\ Ops = <<"getById">>

(***************************************************************************)
(* C5.  _execute_query fails with the GraphQL error exactly when the 2xx    *)
(* body's `errors` array is non-empty; when `errors` is absent or empty it  *)
(* does not fail and returns the `data` object.  Observed on the calls that *)
(* make one request and return what pages.<op> holds.                       *)
(***************************************************************************)
IsGraphQLError(r) == IsRaise(r) /\ r[2][1] = "GraphQL query failed: "

OneRequestRead ==
    /\ Returned /\ Len(replies) = 1
    /\ calls[1].op \in {"getByPath", "list", "tree"}
    /\ replies[1][1] = "http" /\ replies[1][2] \in 200..299

C5_GraphQLErrorIffErrorsNonEmpty ==
    OneRequestRead =>
        LET body == replies[1][3]
            nonEmpty == Has(body, "errors") /\ Truthy(Val(body)["errors"])
        IN  /\ IsGraphQLError(ret) <=> nonEmpty
            /\ (~nonEmpty /\ HasLeaf(replies[1], calls[1].op))
                   => ret = Ok(LeafOf(replies[1], calls[1].op))

C7_EightToolsRouted ==
    (caller = "dispatcher" /\ Returned /\ name \in ToolNames)
        => response # <<"text", <<"Unknown tool: ", name>>>>

(***************************************************************************)
(* C8.  Search primary path: when the search request is answered with N     *)
(* results, search_pages returns the first `limit` of them in upstream      *)
(* order when N > limit, and all N in order when N <= limit.                *)
(***************************************************************************)
IsSearch == ByDispatcher("wiki_search") /\ Len(calls) >= 1

\* the search request was answered, without errors, with a list of results
PrimarySucceeded ==
    /\ IsSearch /\ Len(replies) >= 1
    /\ Answered(replies[1]) /\ HasLeaf(replies[1], "search")
    /\ IsObj(LeafOf(replies[1], "search")) /\ Has(LeafOf(replies[1], "search"), "results")
    /\ IsList(Val(LeafOf(replies[1], "search"))["results"])
UpstreamResults == Val(Val(LeafOf(replies[1], "search"))["results"])

C8_PrimaryTruncates ==
    (PrimarySucceeded /\ Val(kw.limit) >= 0) =>
        /\ Returned /\ Ops = <<"search">>
        /\ IsOk(ret) /\ IsList(ret[2])
        /\ LET N == Len(UpstreamResults)
               got == Val(ret[2])
           IN  /\ Len(got) = IF N > Val(kw.limit) THEN Val(kw.limit) ELSE N
               /\ \A i \in 1..Len(got) : got[i] = UpstreamResults[i]

\* three results upstream, limit 2: the first two are returned
C8_Witness ==
    /\ PrimarySucceeded /\ Returned
    /\ Len(UpstreamResults) = 3 /\ kw.limit = JInt(2)
    /\ UpstreamResults[1] # UpstreamResults[2]
    /\ ret = Ok(JList(<<UpstreamResults[1], UpstreamResults[2]>>))

(***************************************************************************)
(* C9.  Search fallback: when the search request fails, search_pages calls  *)
(* list exactly once with limit 1000 and returns, in list order, exactly    *)
(* the entries whose title, description or path contains the query          *)
(* case-insensitively, up to the requested limit, each reshaped to          *)
(* {id as string, title, description, path, locale defaulting to "en"}.     *)
(* Stated for list entries whose three text fields are strings or absent.   *)
(***************************************************************************)
TextFields == {"title", "description", "path"}
WellFormed(e) == IsObj(e) /\ \A k \in TextFields : Has(e, k) => IsStr(Val(e)[k])

\* the entry contains the query in one of its text fields, ignoring case
EntryMatches(e, q) ==
    \E k \in TextFields :
        StrContains(StrLower(q), StrLower(IF Has(e, k) THEN Val(Val(e)[k]) ELSE <<>>))

\* the result shape of the search catalog entry
Reshaped(e) ==
    JObj([id |-> JStr(IF Has(e, "id") THEN StrInt(Val(Val(e)["id"])) ELSE <<>>),
          title |-> IF Has(e, "title") THEN Val(e)["title"] ELSE EmptyStr,
          description |-> IF Has(e, "description") THEN Val(e)["description"] ELSE EmptyStr,
          path |-> IF Has(e, "path") THEN Val(e)["path"] ELSE EmptyStr,
          locale |-> IF Has(e, "locale") THEN Val(e)["locale"] ELSE JStr(En)])

RECURSIVE MatchesOf(_, _)
MatchesOf(l, q) ==
    IF Len(l) = 0 THEN <<>>
    ELSE (IF EntryMatches(Head(l), q) THEN <<Reshaped(Head(l))>> ELSE <<>>)
             \o MatchesOf(Tail(l), q)

PrimaryFailed == IsSearch /\ Len(replies) >= 1 /\ Failed(replies[1])

\* the list request was answered, without errors, with a list of well-formed entries
ListAnswered ==
    /\ Len(replies) = 2
    /\ Answered(replies[2]) /\ HasLeaf(replies[2], "list")
    /\ IsList(LeafOf(replies[2], "list"))
    /\ \A i \in 1..Len(Val(LeafOf(replies[2], "list"))) :
          WellFormed(Val(LeafOf(replies[2], "list"))[i])

C9_FallbackFilters ==
    /\ PrimaryFailed =>
          /\ Len(calls) = 2
          /\ calls[2] = Request("list", [limit |-> JInt(1000)])
    /\ (PrimaryFailed /\ ListAnswered /\ Val(kw.limit) >= 0) =>
          /\ Returned
          /\ ret = Ok(JList(Prefix(MatchesOf(Val(LeafOf(replies[2], "list")), Val(kw.query)),
                                   Val(kw.limit))))

(***************************************************************************)
(* C10.  For every limit >= 0, on the primary and on the fallback path, the *)
(* number of results search_pages returns never exceeds the limit.          *)
(***************************************************************************)
C10_NeverMoreThanLimit ==
    (IsSearch /\ Returned /\ IsOk(ret) /\ IsList(ret[2]) /\ Val(kw.limit) >= 0)
        => Len(Val(ret[2])) <= Val(kw.limit)

(***************************************************************************)
(* C11.  When the search request fails and the fallback's list request is   *)
(* answered with a list of entries, search_pages returns a result list and  *)
(* does not raise, whatever the entries hold: a missing or null title,      *)
(* description or path included.                                            *)
(***************************************************************************)
\* the list request was answered, without errors, with a list of objects
ListOfEntries ==
    /\ Len(replies) = 2
    /\ Answered(replies[2]) /\ HasLeaf(replies[2], "list")
    /\ IsList(LeafOf(replies[2], "list"))
    /\ \A i \in 1..Len(Val(LeafOf(replies[2], "list"))) :
          IsObj(Val(LeafOf(replies[2], "list"))[i])

C11_FallbackTolerates ==
    (PrimaryFailed /\ ListOfEntries) => /\ Returned
                                        /\ IsOk(ret) /\ IsList(ret[2])

(***************************************************************************)
(* C12.  A wiki_get_page call with exactly one of path or id issues exactly *)
(* one upstream request: getByPath (with that path) when path is given,     *)
(* getById (with that id) when id is given, and never both.                 *)
(***************************************************************************)
ExactlyOneOfPathId == Has(arguments, "path") # Has(arguments, "id")

C12_GetPageOneRequest ==
    (ByDispatcher("wiki_get_page") /\ ExactlyOneOfPathId) =>
        /\ Len(calls) = 1
        /\ Has(arguments, "path") =>
              /\ calls[1].op = "getByPath"
              /\ calls[1].variables.path = Val(arguments)["path"]
        /\ Has(arguments, "id") =>
              /\ calls[1].op = "getById"
              /\ calls[1].variables.id = Val(arguments)["id"]

\* a lookup by id that has returned after its one getById request
C12_Witness ==
    /\ ByDispatcher("wiki_get_page") /\ Returned
    /\ Has(arguments, "id") /\ ~Has(arguments, "path")
    /\ Len(replies) = 1
    /\ calls = <<Request("getById", [id |-> JInt(7)])>>

(***************************************************************************)
(* C13.  A wiki_update_page call that supplies `id` and no `content` is     *)
(* accepted: it reads the page and, when the page exists, writes it back    *)
(* with the page's current content.                                         *)
(***************************************************************************)
C13_UpdateWithoutContent ==
    (ByDispatcher("wiki_update_page") /\ Has(arguments, "id") /\ ~Has(arguments, "content")) =>
        /\ Len(calls) >= 1 /\ calls[1].op = "getById"
        /\ response # <<"text", <<"Error: ">> \o KeyError("content")>>
        /\ UpdateIssued =>
              calls[2].variables.content
                  = DictGet(LeafOf(replies[1], "single"), "content", EmptyStr)

(***************************************************************************)
(* C14.  For create, update, delete and move: when the mutation is answered *)
(* with a 2xx response whose responseResult.succeeded is false, the         *)
(* operation raises "Failed to <op> page: <message>" with the upstream      *)
(* message, and the tool call never returns a success confirmation.         *)
(***************************************************************************)
MutationOps == {"create", "update", "delete", "move"}

\* the reply to a mutation `op` carries responseResult.succeeded = false
SucceededFalse(reply, op) ==
    /\ Answered(reply) /\ HasLeaf(reply, op)
    /\ IsObj(LeafOf(reply, op)) /\ Has(LeafOf(reply, op), "responseResult")
    /\ IsObj(Val(LeafOf(reply, op))["responseResult"])
    /\ Has(Val(LeafOf(reply, op))["responseResult"], "succeeded")
    /\ Val(Val(LeafOf(reply, op))["responseResult"])["succeeded"] = JBool(FALSE)
ResponseResultOf(reply, op) == Val(LeafOf(reply, op))["responseResult"]

C14_SucceededFalseRaises ==
    \A i \in 1..Len(replies) :
        (calls[i].op \in MutationOps /\ SucceededFalse(replies[i], calls[i].op)) =>
            /\ Returned /\ i = Len(calls)
            /\ IsRaise(ret)
            /\ ret[2][1] = "Failed to " \o calls[i].op \o " page: "
            /\ Has(ResponseResultOf(replies[i], calls[i].op), "message") =>
                  ret[2] = <<ret[2][1]>>
                               \o PyStr(Val(ResponseResultOf(replies[i], calls[i].op))["message"])
            /\ caller = "dispatcher" =>
                  /\ IsErrorResponse(response)
                  /\ StrContains(ret[2], response[2])

\* delete_page(999) answered with succeeded: false, message "slug taken"
C14_Witness ==
    /\ caller = "client" /\ name = "delete_page" /\ Returned
    /\ kw.page_id = JInt(999)
    /\ Len(replies) = 1 /\ SucceededFalse(replies[1], "delete")
    /\ ret = Raise(<<"Failed to delete page: ", "slug taken">>)

(***************************************************************************)
(* C15.  wiki_move_page first fetches the page by id; when that read        *)
(* returns null the tool returns the text "Page with ID <id> not found" as  *)
(* a normal result and issues no move mutation; otherwise the move mutation *)
(* is issued after the read.                                                *)
(***************************************************************************)
IsMove == (caller = "client" /\ name = "move_page") \/ ByDispatcher("wiki_move_page")

C15_MoveReadsFirst ==
    /\ IsMove => Len(calls) >= 1 /\ calls[1].op = "getById"
    /\ \A i \in 1..Len(calls) :
          calls[i].op = "move" =>
              /\ i = 2 /\ calls[1].op = "getById"
              /\ HasLeaf(replies[1], "single") /\ ~IsNull(LeafOf(replies[1], "single"))
    /\ (ByDispatcher("wiki_move_page") /\ Len(replies) >= 1 /\ ReadNull(replies[1])) =>
          /\ Returned /\ Ops = <<"getById">>
          /\ response = <<"text", PageNotFound(Val(arguments)["id"])>>

(***************************************************************************)
(* C16.  On a non-2xx HTTP status _execute_query fails with "API request    *)
(* failed: <status>" and the body is not interpreted: a non-2xx body with   *)
(* an `errors` member still gives the transport error.  The search request  *)
(* is the one whose failure the caller catches: it starts the fallback.     *)
(***************************************************************************)
NonSuccessStatus(reply) == reply[1] = "http" /\ reply[2] \notin 200..299

C16_NonSuccessIsApiError ==
    \A i \in 1..Len(replies) :
        NonSuccessStatus(replies[i]) =>
            IF calls[i].op = "search"
            THEN Len(calls) = i + 1 /\ calls[i + 1].op = "list"
            ELSE /\ Returned /\ i = Len(calls)
                 /\ ret = Raise(ApiRequestFailed(replies[i][2]))
                 /\ caller = "dispatcher" =>
                       response = <<"text", <<"Error: ">> \o ApiRequestFailed(replies[i][2])>>

\* a 404 whose body has an `errors` member: the transport error
C16_Witness ==
    /\ Returned /\ Len(replies) = 1
    /\ replies[1] = Http(404, JObj([errors |-> Errors]))
    /\ ret = Raise(<<"API request failed: ", "4", "0", "4">>)

(***************************************************************************)
(* C17.  A tool call whose name matches no tool returns the text            *)
(* "Unknown tool: <name>", issues no upstream request, and no exception is  *)
(* raised.                                                                  *)
(***************************************************************************)
C17_UnknownTool ==
    (caller = "dispatcher" /\ pc # "idle" /\ name \notin ToolNames) =>
        /\ Returned
        /\ response = <<"text", <<"Unknown tool: ", name>>>>
        /\ calls = <<>> /\ replies = <<>>
        /\ exc = None

C17_Witness ==
    /\ caller = "dispatcher" /\ Returned
    /\ name = "wiki_rename_page"
    /\ response = <<"text", <<"Unknown tool: ", "wiki_rename_page">>>>
    /\ calls = <<>>

(***************************************************************************)
(* C18.  wiki_get_page with a path sends the caller's `locale` argument     *)
(* ("en" when omitted) as the locale variable of the getByPath request; a   *)
(* lookup by id sends no locale.                                            *)
(***************************************************************************)
C18_LocaleForwarded ==
    (ByDispatcher("wiki_get_page") /\ ExactlyOneOfPathId /\ Len(calls) >= 1) =>
        IF Has(arguments, "path")
        THEN calls[1].variables.locale = DictGet(arguments, "locale", JStr(En))
        ELSE "locale" \notin DOMAIN calls[1].variables

(***************************************************************************)
(* C19.  wiki_get_tree sends the caller's `mode`, `locale` and `parent_id`  *)
(* arguments unchanged in the tree request, with mode "ALL", locale "en"    *)
(* and parent null for those omitted.                                       *)
(***************************************************************************)
C19_TreeArgumentsForwarded ==
    (ByDispatcher("wiki_get_tree") /\ Len(calls) >= 1) =>
        /\ calls[1].op = "tree"
        /\ calls[1].variables.mode = DictGet(arguments, "mode", JStr(<<"ALL">>))
        /\ calls[1].variables.locale = DictGet(arguments, "locale", JStr(En))
        /\ calls[1].variables.parent = DictGet(arguments, "parent_id", JNull)

(***************************************************************************)
(* C20.  When the upstream answers a single-page lookup (by path or by id)  *)
(* with null, wiki_get_page returns the text "Page not found": it is not an *)
(* error response and no exception is raised.                               *)
(***************************************************************************)
\* the member of data.pages that answers a lookup request
SingleLeaf(op) == IF op = "getByPath" THEN "singleByPath" ELSE "single"

LookupNull ==
    /\ ByDispatcher("wiki_get_page") /\ Len(replies) = 1
    /\ Answered(replies[1]) /\ HasLeaf(replies[1], SingleLeaf(calls[1].op))
    /\ IsNull(LeafOf(replies[1], SingleLeaf(calls[1].op)))

C20_NullIsPageNotFound ==
    LookupNull => /\ Returned
                  /\ ret = Ok(JNull) /\ exc = None
                  /\ response = <<"text", <<"Page not found">>>>
                  /\ ~IsErrorResponse(response)

\* a lookup by path answered with singleByPath: null
C20_Witness ==
    /\ LookupNull /\ Returned
    /\ calls[1].op = "getByPath"
    /\ response = <<"text", <<"Page not found">>>>

(***************************************************************************)
(* C21.  Every tool invocation with valid arguments performs one or two     *)
(* upstream round trips, one after the other, and never re-issues a request *)
(* that failed: two only for search with fallback (search, list), update    *)
(* (getById, update) and move (getById, move); a failure outside the search *)
(* primary path ends the invocation with the error, without a retry.        *)
(***************************************************************************)
\* the arguments hold what the tool catalog requires
ValidArguments ==
    CASE name = "wiki_search" -> Has(arguments, "query")
      [] name = "wiki_get_page" -> ExactlyOneOfPathId
      [] name = "wiki_create_page" ->
            Has(arguments, "path") /\ Has(arguments, "title") /\ Has(arguments, "content")
      [] name = "wiki_update_page" -> Has(arguments, "id")
      [] name = "wiki_delete_page" -> Has(arguments, "id")
      [] name = "wiki_move_page" -> Has(arguments, "id") /\ Has(arguments, "destination_path")
      [] OTHER -> TRUE

TwoTrips == {<<"search", "list">>, <<"getById", "update">>, <<"getById", "move">>}

\* the reply made _execute_query raise
ExecuteRaised(reply) == IsRaise(ExecuteQuery(reply))

C21_RoundTrips ==
    (caller = "dispatcher" /\ pc # "idle" /\ name \in ToolNames /\ ValidArguments) =>
        /\ Len(calls) \in 1..2
        /\ Len(calls) - Len(replies) \in {0, 1}
        /\ Returned => Len(replies) = Len(calls)
        /\ Len(calls) = 2 => Ops \in TwoTrips /\ calls[1] # calls[2]
        /\ name = "wiki_move_page" => calls[1].op = "getById"
        /\ \A i \in 1..Len(replies) :
              (ExecuteRaised(replies[i]) /\ calls[i].op # "search") =>
                  /\ Returned /\ i = Len(calls)
                  /\ IsErrorResponse(response)

(***************************************************************************)
(* C26.  When _execute_query does not fail on a response that carries no    *)
(* data (absent or null), or whose data lacks a prefix of the operation's   *)
(* path, the read operations return an empty list (search, list, tree) or   *)
(* null (getByPath, getById) and do not raise.                              *)
(***************************************************************************)
ReadOps == {"search", "getByPath", "getById", "list", "tree"}

\* the member of data.pages a read operation returns
LeafName(op) ==
    CASE op = "getByPath" -> "singleByPath"
      [] op = "getById" -> "single"
      [] OTHER -> op

\* a 2xx reply without errors whose data is absent or null, or is a mapping
\* that lacks `pages`, or whose pages is a mapping that lacks the member
NoData(reply, op) ==
    /\ Answered(reply)
    /\ \/ ~Has(reply[3], "data")
       \/ IsNull(Val(reply[3])["data"])
       \/ /\ IsObj(Val(reply[3])["data"])
          /\ \/ ~Has(Val(reply[3])["data"], "pages")
             \/ /\ IsObj(Val(Val(reply[3])["data"])["pages"])
                /\ ~Has(Val(Val(reply[3])["data"])["pages"], LeafName(op))

C26_MissingDataTolerated ==
    (caller = "dispatcher" /\ name \in {"wiki_search", "wiki_get_page", "wiki_list_pages",
                                       "wiki_get_tree"}
        /\ Len(replies) = 1 /\ NoData(replies[1], calls[1].op)) =>
        /\ Returned /\ Len(calls) = 1
        /\ ret = Ok(IF calls[1].op \in {"getByPath", "getById"} THEN JNull ELSE EmptyList)

(***************************************************************************)
(* C27.  A mutation (create, update, delete, move) returns success only if  *)
(* the response holds responseResult.succeeded = true; when the mutation    *)
(* payload or responseResult is absent, or succeeded is absent or null, the *)
(* mutation raises, with the message "Unknown error" when none is given.    *)
(***************************************************************************)
SucceededTrue(reply, op) ==
    /\ Answered(reply) /\ HasLeaf(reply, op)
    /\ IsObj(LeafOf(reply, op)) /\ Has(LeafOf(reply, op), "responseResult")
    /\ IsObj(Val(LeafOf(reply, op))["responseResult"])
    /\ Has(Val(LeafOf(reply, op))["responseResult"], "succeeded")
    /\ Val(Val(LeafOf(reply, op))["responseResult"])["succeeded"] = JBool(TRUE)

\* v[k], or the empty mapping when v has no k
Sub(v, k) == IF Has(v, k) THEN Val(v)[k] ELSE EmptyDict

\* responseResult of the reply, each absent level taken as the empty mapping;
\* AllMappings says that no level on the way is null
ResponseResultIn(reply, op) ==
    Sub(Sub(Sub(Sub(reply[3], "data"), "pages"), op), "responseResult")
AllMappings(reply, op) ==
    /\ IsObj(Sub(reply[3], "data"))
    /\ IsObj(Sub(Sub(reply[3], "data"), "pages"))
    /\ IsObj(Sub(Sub(Sub(reply[3], "data"), "pages"), op))
    /\ IsObj(ResponseResultIn(reply, op))

\* nothing says the mutation succeeded, and no message is given
NoVerdict(reply, op) ==
    /\ Answered(reply) /\ AllMappings(reply, op)
    /\ ~Has(ResponseResultIn(reply, op), "message")
    /\ Has(ResponseResultIn(reply, op), "succeeded")
           => IsNull(Val(ResponseResultIn(reply, op))["succeeded"])

C27_SuccessOnlyIfSucceededTrue ==
    \A i \in 1..Len(replies) :
        calls[i].op \in MutationOps =>
            /\ Returned /\ i = Len(calls)
            /\ IsOk(ret) => SucceededTrue(replies[i], calls[i].op)
            /\ ~SucceededTrue(replies[i], calls[i].op) =>
                  /\ IsRaise(ret)
                  /\ caller = "dispatcher" => IsErrorResponse(response)
            /\ NoVerdict(replies[i], calls[i].op) =>
                  ret = Raise(<<"Failed to " \o calls[i].op \o " page: ", "Unknown error">>)

\* move_page answered with a move payload that has no responseResult
C27_Witness ==
    /\ caller = "client" /\ name = "move_page" /\ Returned
    /\ Len(replies) = 1 /\ HasLeaf(replies[1], "move")
    /\ LeafOf(replies[1], "move") = EmptyDict
    /\ ret = Raise(<<"Failed to move page: ", "Unknown error">>)

(***************************************************************************)
(* C28.  The fallback's list request is issued only after the search        *)
(* request has failed: whenever the search request returns without error    *)
(* (with zero results or without a results field too), search_pages issues  *)
(* exactly one request and list is never called.                            *)
(***************************************************************************)
C28_FallbackOnlyAfterFailure ==
    (IsSearch /\ Len(replies) >= 1 /\ Answered(replies[1])) =>
        /\ Returned
        /\ Ops = <<"search">>

(***************************************************************************)
(* C22.  Every tool invocation opens exactly one client at its start and    *)
(* closes it before its response is returned, on every path (handler        *)
(* success, handler exception, unknown tool); once all invocations have     *)
(* completed no client opened by the dispatcher is open.                    *)
(***************************************************************************)
ClientsOf(i) == {c \in 1..Len(clients) : clients[c].owner = i}
AllCompleted == \A i \in Invocations : inv[i].pc = "done"

C22_ClientScopedToInvocation ==
    /\ \A i \in Invocations :
          IF inv[i].pc = "idle" THEN ClientsOf(i) = {}
          ELSE /\ ClientsOf(i) = {inv[i].client}
               /\ inv[i].pc # "done" => clients[inv[i].client].open /\ inv[i].response = None
               /\ inv[i].response # None => inv[i].pc = "done" /\ ~clients[inv[i].client].open
               /\ inv[i].pc = "done" => inv[i].response # None
    /\ AllCompleted => \A c \in 1..Len(clients) : ~clients[c].open

\* all invocations have completed: one by the unknown-tool branch and one
\* with an exception of its handler after a request
C22_Witness ==
    /\ AllCompleted
    /\ \E i \in Invocations : inv[i].response = <<"text", <<"Unknown tool: ", inv[i].name>>>>
    /\ \E i \in Invocations : Len(inv[i].replies) >= 1 /\ IsErrorResponse(inv[i].response)
    /\ \A c \in 1..Len(clients) : ~clients[c].open

(***************************************************************************)
(* C23.  update_page gives no isolation: when another writer changes the    *)
(* page between an invocation's read and its write, the write carries, for  *)
(* every field the caller did not supply, the value the invocation read     *)
(* earlier, and the page holds it afterwards: the other change is lost.     *)
(***************************************************************************)
SuppliedBy(i, p) == p \in DOMAIN inv[i].kw /\ ~IsNull(inv[i].kw[p])

C23_LastWriterWins ==
    \A k \in 1..Len(wiki.log) :
        (wiki.log[k].kind = "write" /\ wiki.log[k].who # 0) =>
            \E r \in 1..(k - 1) :
                /\ wiki.log[r].who = wiki.log[k].who /\ wiki.log[r].kind = "read"
                /\ \A f \in UpdateFields :
                      wiki.log[k].page[f[1]]
                          = IF SuppliedBy(wiki.log[k].who, f[2]) THEN inv[wiki.log[k].who].kw[f[2]]
                            ELSE wiki.log[r].page[f[1]]

\* an invocation that does not supply a title reads the page, another
\* writer changes the title, the invocation writes: the old title is back
C23_Witness ==
    \E r, m, k \in 1..Len(wiki.log) :
        /\ r < m /\ m < k
        /\ wiki.log[r].kind = "read" /\ wiki.log[k].kind = "write"
        /\ wiki.log[r].who = wiki.log[k].who /\ wiki.log[k].who # 0
        /\ ~SuppliedBy(wiki.log[k].who, "title")
        /\ wiki.log[m].kind = "write" /\ wiki.log[m].who # wiki.log[k].who
        /\ wiki.log[m].page.title # wiki.log[r].page.title
        /\ wiki.log[k].page.title = wiki.log[r].page.title
        /\ wiki.page = wiki.log[k].page

(***************************************************************************)
(* C24.  Concurrent invocations share no mutable state: each has its own    *)
(* client, and under every interleaving the requests and the response of    *)
(* an invocation are those its handler produces from its own arguments and  *)
(* the replies it received.                                                 *)
(***************************************************************************)
\* the handler run alone from step `st` over the replies `rs`
RECURSIVE RunAlone(_, _, _)
RunAlone(st, cs, rs) ==
    IF st.at = "done" \/ Len(rs) = 0 THEN [st |-> st, calls |-> cs]
    ELSE LET nx == Resume(st.at, st.kw, Head(rs))
         IN  RunAlone(nx, IF nx.at = "done" THEN cs ELSE Append(cs, nx.req), Tail(rs))

Replay(n, args, rs) ==
    LET st == Route(n, args)
    IN  RunAlone(st, IF st.at = "done" THEN <<>> ELSE <<st.req>>, rs)

C25_ValidatedBeforeOperations ==
    requested => /\ validated
                 /\ config.url # "" /\ config.api_key # ""

(***************************************************************************)
(* C29.  After load_config has loaded from an encrypted file (decryption    *)
(* succeeded or failed), no file holding the decrypted configuration is     *)
(* left on disk and the EnvEncryption object's env_path is back to its      *)
(* original value.                                                          *)
(***************************************************************************)
LoadedFromEncrypted ==
    epc \in {"constructed", "failed", "serving", "served"} /\ result.encrypted

C29_NoDecryptedFileLeft ==
    LoadedFromEncrypted => /\ \A p \in Paths : ~IsPlain(fs[p])
                           /\ enc.env_path = EnvFile

(***************************************************************************)
(* C30.  edit_env_file leaves the object's env_path as it was before the    *)
(* call on every exit path, so that a later decrypt on the same object      *)
(* writes the original .env path.                                           *)
(***************************************************************************)
C30_EnvPathRestored ==
    /\ epc \in {"edited", "exited"} => enc.env_path = EnvFile
    /\ (epc = "exited" /\ result.ok) => IsPlain(fs[EnvFile])

====
